---------------------------- MODULE Spec2Model ----------------------------
(***************************************************************************)
(* Obsigent: the streaming turn orchestrator (ObsigentPluginCore), the     *)
(* chat view's generating flag and abort controller, and the provider      *)
(* adapters (OpenAI-compatible, Ollama, Anthropic).                        *)
(*                                                                         *)
(* JavaScript runs one task at a time.  An action of this module is one    *)
(* task of the event loop: it starts where a network read, a fetch, a tool *)
(* handler, a markdown render or a user event completes and runs the code  *)
(* (with every callback it calls and every microtask it queues) up to the  *)
(* next such suspension point.                                             *)
(*                                                                         *)
(* Text is a sequence of tokens, so that `+=' on strings is \o and the     *)
(* empty string (falsy in JavaScript) is << >>.                            *)
(***************************************************************************)
EXTENDS Integers, Sequences, FiniteSets, TLC

(***************************************************************************)
(* Bounds of the model.                                                    *)
(***************************************************************************)
\* user submissions in one session
MaxTurns == 2
\* SSE frames the backend delivers in one session, all invocations together
MaxFrames == 3
\* failures of the environment in one session: a setting missing, a fetch or a
\* read that fails, a non-2xx response, a streaming element that is not created,
\* a file a tool cannot read
MaxFaults == 1
\* frames one adapter invocation reads in the adapter-only specification
MaxAdFrames == 3

Turns == 1..MaxTurns
Kinds == {"top", "followup"}
InvIds == Turns \X Kinds

\* currentAbortController = null
NoController == 0

(***************************************************************************)
(* Data the backend and the user can send.                                 *)
(***************************************************************************)
\* the k-th content delta of a stream; deltas are data the code only copies,
\* so naming them by position loses no behaviour
DeltaTokens == <<"Hi", " there", "!", "?", ".", ",">>
Delta(k) == << DeltaTokens[k] >>

Messages == {"hello"}

ArgsWhole == << "{\"path\":\"a.md\"}" >>
ArgsEmptyObject == << "{}" >>
ArgsTruncated == << "{\"path\":" >>

\* tool-call fragments (delta.tool_calls[k]): index, id, function.name, function.arguments
FragReadA == [index |-> 0, id |-> "call_a", name |-> <<"obsidian_readFile">>, arguments |-> ArgsWhole]
FragReadD == [index |-> 1, id |-> "call_d", name |-> <<"obsidian_readFile">>, arguments |-> ArgsWhole]
FragFooBar == [index |-> 1, id |-> "call_b", name |-> <<"foo_bar">>, arguments |-> ArgsEmptyObject]
FragBadArgs == [index |-> 2, id |-> "call_c", name |-> <<"obsidian_readFile">>, arguments |-> ArgsTruncated]
Fragments == {FragReadA, FragReadD, FragFooBar, FragBadArgs}
FragIndexes == {f.index : f \in Fragments}

\* one SSE frame ("\n\n"-terminated chunk of the buffer)
\*   kind "data":      data: {"choices":[{"delta":{content, tool_calls}, "finish_reason"}]}
\*   kind "done":      data: [DONE]
\*   kind "malformed": data: <text JSON.parse rejects>
\*   kind "comment":   a chunk that does not start with "data: "
\*   kind "error":     data: {"error": {...}}, an error the backend reports in-band
DataFrame(content, tcs, finish) ==
    [kind |-> "data", content |-> content, tool_calls |-> tcs, finish |-> finish]
PlainFrame(kind) == [kind |-> kind, content |-> << >>, tool_calls |-> << >>, finish |-> ""]

\* the tool-call batches the backend of a session asks for: one executable call,
\* one call of an unknown tool, two executable calls, a call with truncated
\* arguments after an executable or an unknown one, and no call at all
BackendBatches ==
    { << FragReadA >>, << FragFooBar >>, << FragReadA, FragReadD >>,
      << FragReadA, FragBadArgs >>, << FragFooBar, FragBadArgs >>, << >> }

\* the frames the backend of a session may send to an invocation that has
\* received n content deltas: the next content delta, the chunk that carries a
\* batch of tool calls with finish_reason "tool_calls", or finish_reason "stop"
SessionFrames(n) ==
    {DataFrame(Delta(n + 1), << >>, "")}
    \cup {DataFrame(<< >>, b, "tool_calls") : b \in BackendBatches}
    \cup {DataFrame(<< >>, << >>, "stop")}

(***************************************************************************)
(* JSON.parse of an accumulated arguments string.                          *)
(***************************************************************************)
ValidJsonTexts == {ArgsWhole, ArgsEmptyObject, ArgsTruncated \o << "\"a.md\"}" >>}

JsonParses(text) == text \in ValidJsonTexts

\* the parsed value: its members, "" for a member the object lacks
ToolArgs(path, content, query) == [path |-> path, content |-> content, query |-> query]

JsonParse(text) == ToolArgs(IF text = ArgsEmptyObject THEN "" ELSE "a.md", "", "")

(***************************************************************************)
(* StreamCallbacks events, in the order the adapter calls them.            *)
(***************************************************************************)
Event(cb, text, final, reason) == [cb |-> cb, text |-> text, final |-> final, reason |-> reason]
OnUpdate(text, final) == Event("onUpdate", text, final, "")
OnFinish(reason) == Event("onFinish", << >>, FALSE, reason)
OnError(msg) == Event("onError", << >>, FALSE, msg)
OnToolCall == Event("onToolCall", << >>, FALSE, "")

IsTerminal(e) == e.cb \in {"onFinish", "onError"}

RECURSIVE SelectEvents(_, _)
SelectEvents(evs, cbs) ==
    IF evs = << >> THEN << >>
    ELSE LET rest == SelectEvents(Tail(evs), cbs)
         IN  IF Head(evs).cb \in cbs THEN << Head(evs) >> \o rest ELSE rest

Terminals(evs) == SelectEvents(evs, {"onFinish", "onError"})

(***************************************************************************)
(* One adapter invocation (a call of generateResponse).                    *)
(*   pc: "none"        not called                                         *)
(*       "startStream" the orchestrator awaits startStreamingResponse      *)
(*       "fetch"       await fetch(...)                                    *)
(*       "errbody"     await response.json() of a non-2xx response         *)
(*       "read"        await reader.read()                                 *)
(*       "toolcall"    await callbacks.onToolCall(...)                     *)
(*       "returned"    generateResponse has returned                       *)
(*   acc: currentToolCallsAccumulator, a sparse array                      *)
(*   events: the callbacks made so far                                     *)
(*   nContent, lastFrame, malformed, eof: what the stream held (history)   *)
(*   raised: the exception that reached the outer catch, "" if none        *)
(*   calledAborted, config: whether the signal was aborted at the call,    *)
(*       and what the settings lacked ("ok": nothing) (history)            *)
(*   httpError: the response was not 2xx (history)                         *)
(***************************************************************************)
NewInvocation ==
    [pc |-> "none", acc |-> << >>, events |-> << >>, nContent |-> 0,
     lastFrame |-> "", malformed |-> FALSE, eof |-> FALSE, raised |-> "",
     calledAborted |-> FALSE, config |-> "", httpError |-> FALSE, fetches |-> 0]

Emit(a, e) == [a EXCEPT !.events = Append(@, e)]

EmptyToolCall == [id |-> "", name |-> << >>, arguments |-> << >>]

\* an accumulator that files a new record in the next free slot, in order of
\* first arrival, instead of under the fragment's index
ApplyFragmentByArrival(acc, tc) ==
    LET slot == IF tc.index \in DOMAIN acc THEN tc.index ELSE Cardinality(DOMAIN acc)
        cur == IF slot \in DOMAIN acc THEN acc[slot] ELSE EmptyToolCall
        new == [id |-> IF tc.id # "" THEN tc.id ELSE cur.id,
                name |-> cur.name \o tc.name,
                arguments |-> cur.arguments \o tc.arguments]
    IN  [i \in (DOMAIN acc) \cup {slot} |-> IF i = slot THEN new ELSE acc[i]]

\* an accumulator that assigns a fragment's name and arguments instead of
\* appending them
ApplyFragmentOverwriting(acc, tc) ==
    LET cur == IF tc.index \in DOMAIN acc THEN acc[tc.index] ELSE EmptyToolCall
        new == [id |-> IF tc.id # "" THEN tc.id ELSE cur.id,
                name |-> IF tc.name # << >> THEN tc.name ELSE cur.name,
                arguments |-> IF tc.arguments # << >> THEN tc.arguments
                              ELSE cur.arguments]
    IN  [i \in (DOMAIN acc) \cup {tc.index} |-> IF i = tc.index THEN new ELSE acc[i]]

\* OpenAIProvider.ts 189-196: one element of delta.tool_calls
ApplyFragment(acc, tc) ==
    LET cur == IF tc.index \in DOMAIN acc THEN acc[tc.index] ELSE EmptyToolCall
        new == [id |-> IF tc.id # "" THEN tc.id ELSE cur.id,
                name |-> cur.name \o tc.name,
                arguments |-> cur.arguments \o tc.arguments]
    IN  [i \in (DOMAIN acc) \cup {tc.index} |-> IF i = tc.index THEN new ELSE acc[i]]

RECURSIVE ApplyFragments(_, _)
ApplyFragments(acc, tcs) ==
    IF tcs = << >> THEN acc ELSE ApplyFragments(ApplyFragment(acc, Head(tcs)), Tail(tcs))

\* the least index of a non-empty set of naturals
MinOf(S) == CHOOSE x \in S : \A y \in S : x <= y

\* a filter that keeps every record, complete or not
RECURSIVE FilterNothing(_, _)
FilterNothing(acc, S) ==
    IF S = {} THEN << >>
    ELSE LET i == MinOf(S) IN << acc[i] >> \o FilterNothing(acc, S \ {i})

\* OpenAIProvider.ts 203: accumulator.filter(tc => tc && tc.id && name && arguments),
\* which visits the array in ascending index order and skips its holes
RECURSIVE FilterFrom(_, _)
FilterFrom(acc, S) ==
    IF S = {} THEN << >>
    ELSE LET i == MinOf(S)
             rest == FilterFrom(acc, S \ {i})
         IN  IF acc[i].id # "" /\ acc[i].name # << >> /\ acc[i].arguments # << >>
             THEN << acc[i] >> \o rest
             ELSE rest

\* a batch of every accumulated record, complete or not
CompleteAndIncomplete(acc) == FilterNothing(acc, DOMAIN acc)

CompleteToolCalls(acc) == FilterFrom(acc, DOMAIN acc)


(***************************************************************************)
(* OpenAIProvider.generateResponse, the body of the inner while loop for   *)
(* one frame (OpenAIProvider.ts 168-215).  hasOnToolCall: the callbacks    *)
(* object has an onToolCall member.                                        *)
(***************************************************************************)
FrameTag(f) ==
    IF f.kind # "data" THEN f.kind
    ELSE IF f.finish # "" THEN "finish"
    ELSE IF f.content # << >> THEN "content"
    ELSE "tool"

\* history of what the stream held
Received(a, f) ==
    [a EXCEPT !.lastFrame = FrameTag(f),
              !.malformed = @ \/ f.kind = "malformed",
              !.nContent = IF f.content # << >> THEN @ + 1 ELSE @]

\* 183-185: if (delta?.content) callbacks.onUpdate(delta.content, false)
ForwardContent(a, f) ==
    IF f.content # << >> THEN Emit(a, OnUpdate(f.content, FALSE)) ELSE a

\* 187-198
Accumulate(a, f) == [a EXCEPT !.acc = ApplyFragments(@, f.tool_calls)]

\* 200-210: if (finishReason) {...}
OnFinishReason(a, f, hasOnToolCall) ==
    IF f.finish = "" THEN a
    ELSE IF f.finish = "tool_calls"
         THEN IF hasOnToolCall
              THEN [Emit(a, OnToolCall) EXCEPT !.pc = "toolcall"]
              ELSE [Emit(a, OnFinish(f.finish)) EXCEPT !.pc = "returned"]
         ELSE [Emit(Emit(a, OnUpdate(<< >>, TRUE)), OnFinish(f.finish))
                   EXCEPT !.pc = "returned"]

OpenAIFrame(a, f, hasOnToolCall) ==
    IF f.kind # "data"
    THEN Received(a, f)
    ELSE OnFinishReason(Accumulate(ForwardContent(Received(a, f), f), f), f, hasOnToolCall)

\* 208-209 after `await callbacks.onToolCall(...)' has resolved
AfterOnToolCall(a) == [Emit(a, OnFinish("tool_calls")) EXCEPT !.pc = "returned"]

\* 212-214: the await rejected; the chunk's catch logs it and the loop goes on
OnToolCallRejected(a) == [a EXCEPT !.pc = "read"]

\* an outer catch that finalizes the message when the request was aborted
OpenAICatchCommits(a, errorName) ==
    IF errorName = "AbortError"
    THEN [Emit(Emit(a, OnUpdate(<< >>, TRUE)), OnFinish("aborted"))
              EXCEPT !.pc = "returned", !.raised = errorName]
    ELSE [Emit(a, OnError("Failed to connect to OpenAI API (stream)"))
              EXCEPT !.pc = "returned", !.raised = errorName]

\* 218-227: the outer catch
OpenAICatch(a, errorName) ==
    IF errorName = "AbortError"
    THEN [Emit(a, OnFinish("aborted")) EXCEPT !.pc = "returned", !.raised = errorName]
    ELSE [Emit(a, OnError("Failed to connect to OpenAI API (stream)"))
              EXCEPT !.pc = "returned", !.raised = errorName]

\* 77-84: the configuration check; cfg is what the settings lack
\* an adapter that probes the endpoint with a request of its own before it
\* opens the stream
OpenAIConfigCheckProbing(a, cfg) ==
    IF cfg = "noEndpoint"
    THEN [Emit(a, OnError("OpenAI API endpoint is not set")) EXCEPT !.pc = "returned"]
    ELSE IF cfg = "noModel"
    THEN [Emit(a, OnError("OpenAI Default model is not set")) EXCEPT !.pc = "returned"]
    ELSE [a EXCEPT !.pc = "fetch", !.fetches = @ + 2]

OpenAIConfigCheck(a, cfg) ==
    IF cfg = "noEndpoint"
    THEN [Emit(a, OnError("OpenAI API endpoint is not set")) EXCEPT !.pc = "returned"]
    ELSE IF cfg = "noModel"
    THEN [Emit(a, OnError("OpenAI Default model is not set")) EXCEPT !.pc = "returned"]
    ELSE [a EXCEPT !.pc = "fetch", !.fetches = @ + 1]

Configs == {"ok", "noEndpoint", "noModel"}

\* OpenAIProvider.ts 126-158: fetch settles while the signal is not aborted
FetchOutcomes == {"ok", "httpError", "nullBody", "networkError"}

OpenAIFetched(a, outcome) ==
    IF outcome = "ok" THEN [a EXCEPT !.pc = "read"]
    ELSE IF outcome = "httpError" THEN [a EXCEPT !.pc = "errbody", !.httpError = TRUE]
    ELSE IF outcome = "nullBody"
    THEN [Emit(a, OnError("Response body is null.")) EXCEPT !.pc = "returned"]
    ELSE OpenAICatch(a, "TypeError")

\* OpenAIProvider.ts 133-148: the body of the non-2xx response has been read
OpenAIErrorBody(a) == [Emit(a, OnError("HTTP Error")) EXCEPT !.pc = "returned"]

\* reader.read() resolves with done: break (162), and the function returns
OpenAIEndOfStream(a) == [a EXCEPT !.pc = "returned", !.eof = TRUE]

(***************************************************************************)
(* OllamaProvider.generateResponse (OllamaProvider.ts 36-162).  It uses    *)
(* the older callbacks: onContent where the new interface has onUpdate.    *)
(*   line kinds: "content"   {"message":{"content":...},"done":false}      *)
(*               "done"      {"done":true}                                 *)
(*               "error"     {"error":...}                                 *)
(*               "malformed" a line JSON.parse rejects                     *)
(*               "blank"     an empty line                                 *)
(***************************************************************************)
OnContent(text, final) == Event("onContent", text, final, "")

\* 45-48
OllamaConfigCheck(a, cfg) ==
    IF cfg \in {"noEndpoint", "noModel"}
    THEN [Emit(a, OnError("Ollama API endpoint or default model is not set."))
              EXCEPT !.pc = "returned"]
    ELSE [a EXCEPT !.pc = "fetch", !.fetches = @ + 1]

\* an outer catch without the AbortError case
OllamaCatchAll(a, errorName) ==
    [Emit(Emit(a, OnError("Failed to connect to Ollama API")), OnFinish("error"))
         EXCEPT !.pc = "returned", !.raised = errorName]

\* 150-160: the outer catch
OllamaCatch(a, errorName) ==
    IF errorName = "AbortError"
    THEN [Emit(a, OnFinish("aborted")) EXCEPT !.pc = "returned", !.raised = errorName]
    ELSE [Emit(Emit(a, OnError("Failed to connect to Ollama API")), OnFinish("error"))
              EXCEPT !.pc = "returned", !.raised = errorName]

\* 66-92
OllamaFetched(a, outcome) ==
    IF outcome = "ok" THEN [a EXCEPT !.pc = "read"]
    ELSE IF outcome = "httpError" THEN [a EXCEPT !.pc = "errbody", !.httpError = TRUE]
    ELSE IF outcome = "nullBody"
    THEN [Emit(a, OnError("Response body is null from Ollama.")) EXCEPT !.pc = "returned"]
    ELSE OllamaCatch(a, "TypeError")

\* 75-85
OllamaErrorBody(a) == [Emit(a, OnError("HTTP Error")) EXCEPT !.pc = "returned"]

\* 122-148: one line of the buffer
OllamaLine(a, f) ==
    LET r == Received(a, f)
    IN  IF f.kind = "error"
        THEN [Emit(Emit(r, OnError("Ollama stream error")), OnFinish("error"))
                  EXCEPT !.pc = "returned"]
        ELSE IF f.kind = "content" THEN Emit(r, OnContent(f.content, FALSE))
        ELSE IF f.kind = "done"
        THEN [Emit(Emit(r, OnContent(<< >>, TRUE)), OnFinish("stop")) EXCEPT !.pc = "returned"]
        ELSE r

\* what the buffer holds when the stream ends: nothing, or a last line that
\* lacks its newline
Leftovers == {"", "content", "done", "malformed"}

\* 101-119: reader.read() resolves with done
OllamaEndOfStream(a, leftover) ==
    LET r == [a EXCEPT !.pc = "returned", !.eof = TRUE,
                       !.malformed = @ \/ leftover = "malformed",
                       !.nContent = IF leftover = "content" THEN @ + 1 ELSE @]
    IN  IF leftover = "content"
        THEN Emit(Emit(r, OnContent(Delta(a.nContent + 1), FALSE)), OnFinish("stop"))
        ELSE Emit(r, OnFinish("stop"))

(***************************************************************************)
(* AnthropicProvider.generateResponse (OpenAIProvider.ts 320-490), also on *)
(* the older callbacks.                                                    *)
(*   event kinds: "content_block_delta", "message_stop", "error", "ping",  *)
(*                "malformed" (data JSON.parse rejects)                    *)
(***************************************************************************)
\* 328-346: the endpoint and the model have defaults, the key has none
AnthropicConfigCheck(a, cfg) ==
    IF cfg = "noApiKey"
    THEN [Emit(a, OnError("Anthropic API key is not set.")) EXCEPT !.pc = "returned"]
    ELSE [a EXCEPT !.pc = "fetch", !.fetches = @ + 1]

\* 482-489: the outer catch
AnthropicCatch(a, errorName) ==
    IF errorName = "AbortError"
    THEN [Emit(a, OnFinish("aborted")) EXCEPT !.pc = "returned", !.raised = errorName]
    ELSE [Emit(a, OnError("Failed to connect to Anthropic API"))
              EXCEPT !.pc = "returned", !.raised = errorName]

\* 373-409
AnthropicFetched(a, outcome) ==
    IF outcome = "ok" THEN [a EXCEPT !.pc = "read"]
    ELSE IF outcome = "httpError" THEN [a EXCEPT !.pc = "errbody", !.httpError = TRUE]
    ELSE IF outcome = "nullBody"
    THEN [Emit(a, OnError("Response body is null.")) EXCEPT !.pc = "returned"]
    ELSE AnthropicCatch(a, "TypeError")

\* 385-403
AnthropicErrorBody(a) == [Emit(a, OnError("HTTP Error")) EXCEPT !.pc = "returned"]

\* 424-474: one event of the buffer
AnthropicEvent(a, f) ==
    LET r == Received(a, f)
    IN  IF f.kind = "content_block_delta" THEN Emit(r, OnContent(f.content, FALSE))
        ELSE IF f.kind = "message_stop"
        THEN [Emit(r, OnFinish("stop")) EXCEPT !.pc = "returned"]
        ELSE IF f.kind = "error"
        THEN [Emit(r, OnError("Anthropic API Error")) EXCEPT !.pc = "returned"]
        ELSE r

\* 415 and 479: reader.read() resolves with done
AnthropicEndOfStream(a) ==
    [Emit(a, OnFinish("done_outside_loop")) EXCEPT !.pc = "returned", !.eof = TRUE]

(***************************************************************************)
(* The three adapters behind LLMProvider.generateResponse.                 *)
(***************************************************************************)
Providers == {"openai", "ollama", "anthropic"}

AdapterConfigs == Configs \cup {"noApiKey"}

ConfigCheck(p, a, cfg) ==
    IF p = "openai" THEN OpenAIConfigCheck(a, cfg)
    ELSE IF p = "ollama" THEN OllamaConfigCheck(a, cfg)
    ELSE AnthropicConfigCheck(a, cfg)

Fetched(p, a, outcome) ==
    IF p = "openai" THEN OpenAIFetched(a, outcome)
    ELSE IF p = "ollama" THEN OllamaFetched(a, outcome)
    ELSE AnthropicFetched(a, outcome)

ErrorBody(p, a) ==
    IF p = "openai" THEN OpenAIErrorBody(a)
    ELSE IF p = "ollama" THEN OllamaErrorBody(a)
    ELSE AnthropicErrorBody(a)

Catch(p, a, errorName) ==
    IF p = "openai" THEN OpenAICatch(a, errorName)
    ELSE IF p = "ollama" THEN OllamaCatch(a, errorName)
    ELSE AnthropicCatch(a, errorName)

Frame(p, a, f, hasOnToolCall) ==
    IF p = "openai" THEN OpenAIFrame(a, f, hasOnToolCall)
    ELSE IF p = "ollama" THEN OllamaLine(a, f)
    ELSE AnthropicEvent(a, f)

EndOfStream(p, a, leftover) ==
    IF p = "openai" THEN OpenAIEndOfStream(a)
    ELSE IF p = "ollama" THEN OllamaEndOfStream(a, leftover)
    ELSE AnthropicEndOfStream(a)

\* the frames a backend may send to an invocation of adapter p that has received
\* n content deltas
AdapterFrames(p, n) ==
    IF p = "openai"
    THEN {DataFrame(Delta(n + 1), << >>, ""), DataFrame(<< >>, << FragReadA >>, ""),
          DataFrame(<< >>, << >>, "stop"), DataFrame(<< >>, << >>, "tool_calls"),
          PlainFrame("done"), PlainFrame("malformed"), PlainFrame("comment"),
          PlainFrame("error")}
    ELSE IF p = "ollama"
    THEN {[PlainFrame("content") EXCEPT !.content = Delta(n + 1)],
          PlainFrame("done"), PlainFrame("error"), PlainFrame("malformed"),
          PlainFrame("blank")}
    ELSE {[PlainFrame("content_block_delta") EXCEPT !.content = Delta(n + 1)],
          PlainFrame("message_stop"), PlainFrame("error"), PlainFrame("malformed"),
          PlainFrame("ping")}

(***************************************************************************)
(* LocalToolService: the tool registry and executeTool.                    *)
(***************************************************************************)
\* registerLocalTools: the built-in definitions
BuiltinToolNames == {"obsidian_readFile", "obsidian_writeFile", "obsidian_searchNotes"}

\* getLocalTools().find(t => t.name === toolName)
IsLocalTool(name) == Len(name) = 1 /\ name[1] \in BuiltinToolNames

\* what the vault does when the handler reaches it: "ok" (the file is there and
\* the operation succeeds), or there is no such file, or the vault operation
\* (read, create, modify, cachedRead) throws
VaultOutcomes == {"ok", "missing", "readFails"}

\* the host a tool runs against: the ids of the host's commands
\* (app.commands.listCommands()), whether executeCommandById throws, and the vault
Host(commands, commandThrows, vault) ==
    [commands |-> commands, commandThrows |-> commandThrows, vault |-> vault]

\* a host without commands, as in a chat session that uses the built-in tools
VaultOnly(vault) == Host({}, FALSE, vault)

ToolResult(isError, text) == [isError |-> isError, text |-> text]

\* LocalToolService.readFile
readFile(path, vault) ==
    IF path = "" THEN ToolResult(TRUE, <<"Path is required for readFile.">>)
    ELSE IF vault = "missing" THEN ToolResult(TRUE, <<"File not found at path: ", path>>)
    ELSE IF vault = "readFails" THEN ToolResult(TRUE, <<"Error reading file '", path, "': ">>)
    ELSE ToolResult(FALSE, <<"content of ", path>>)

\* LocalToolService.writeFile: a missing file is created
writeFile(path, content, vault) ==
    IF path = "" THEN ToolResult(TRUE, <<"Path is required for writeFile.">>)
    ELSE IF content = "" THEN ToolResult(TRUE, <<"Content is required for writeFile.">>)
    ELSE IF vault = "readFails" THEN ToolResult(TRUE, <<"Error writing file '", path, "': ">>)
    ELSE ToolResult(FALSE, <<"Successfully wrote to file: ", path>>)

\* LocalToolService.searchNotes
searchNotes(query, vault) ==
    IF query = "" THEN ToolResult(TRUE, <<"Query is required for searchNotes.">>)
    ELSE IF vault = "readFails" THEN ToolResult(TRUE, <<"Error searching notes: ">>)
    ELSE IF vault = "missing" THEN ToolResult(FALSE, <<"[]">>)
    ELSE ToolResult(FALSE, <<"[{\"path\":\"a.md\"}]">>)

\* the switch of executeTool (741-761): the built-in handlers
BuiltinHandler(toolName, args, vault) ==
    IF toolName = <<"obsidian_readFile">> THEN readFile(args.path, vault)
    ELSE IF toolName = <<"obsidian_writeFile">> THEN writeFile(args.path, args.content, vault)
    ELSE IF toolName = <<"obsidian_searchNotes">> THEN searchNotes(args.query, vault)
    ELSE ToolResult(TRUE, <<"Local tool '">> \o toolName \o <<"' not found.">>)

\* LocalToolService.executeTool: the host command of that id, if there is one
\* (720-739), else the built-in handlers
executeTool(toolName, args, host) ==
    IF toolName \in host.commands
    THEN IF host.commandThrows
         THEN ToolResult(TRUE, <<"Error executing Obsidian command '">> \o toolName \o <<"': ">>)
         ELSE ToolResult(FALSE, <<"Successfully executed Obsidian command: ">> \o toolName)
    ELSE BuiltinHandler(toolName, args, host.vault)

(***************************************************************************)
(* chatHistory entries (OpenAIMessage).  tool_call_id "" and tool_calls    *)
(* << >> stand for an absent member; turn is history: the user submission  *)
(* during which the entry was pushed (0 for the system prompt).            *)
(***************************************************************************)
Entry(role, content, id, calls, turn) ==
    [role |-> role, content |-> content, tool_call_id |-> id, tool_calls |-> calls,
     turn |-> turn]

SystemPrompt == Entry("system", <<"You are a helpful assistant integrated into Obsidian.">>,
                      "", << >>, 0)

\* a `tool' message that does not say which call it answers
AnonymousToolMessage(tc, result, t) ==
    Entry("tool", IF result.isError THEN <<"Error: ">> \o result.text ELSE result.text,
          "", << >>, t)

\* part_003 312-324: the `tool' message of an executed call
ExecutedToolMessage(tc, result, t) ==
    Entry("tool", IF result.isError THEN <<"Error: ">> \o result.text ELSE result.text,
          tc.id, << >>, t)

\* part_003 333-338: the `tool' message of a call no local tool matches
UnrecognizedToolMessage(tc, t) ==
    Entry("tool", <<"Error: ", "Tool '">> \o tc.name
                  \o <<"' is not a recognized local or Obsidian command.">>,
          tc.id, << >>, t)

\* part_003 297-341: the for loop of onToolCall from call k on, up to the next
\* await (executeTool), the end of the loop, or the exception of JSON.parse
RECURSIVE RunToolCalls(_, _, _, _)
RunToolCalls(batch, k, results, t) ==
    IF k > Len(batch) THEN [status |-> "done", pos |-> k, results |-> results]
    ELSE IF ~JsonParses(batch[k].arguments)
         THEN [status |-> "throw", pos |-> k, results |-> results]
    ELSE IF IsLocalTool(batch[k].name)
         THEN [status |-> "await", pos |-> k, results |-> results]
    ELSE RunToolCalls(batch, k + 1, Append(results, UnrecognizedToolMessage(batch[k], t)), t)

\* part_003 292: if (!toolCalls || toolCalls.length === 0) return
onToolCall(batch, t) ==
    IF batch = << >> THEN [status |-> "empty", pos |-> 1, results |-> << >>]
    ELSE RunToolCalls(batch, 1, << >>, t)


(***************************************************************************)
(* State.                                                                  *)
(***************************************************************************)
VARIABLES
    chatHistory,             \* ObsigentPluginCore.chatHistory
    isGenerating,            \* the view's isGenerating
    currentAbortController,  \* the view's currentAbortController: a turn, or NoController
    aborted,                 \* the AbortControllers whose signal is aborted
    nTurns,                  \* user submissions so far; turn t owns AbortController t
    inv,                     \* the invocations: <<t, "top">> by handleUserMessage,
                             \* <<t, "followup">> by continueGenerationWithTools
    tool,                    \* per turn, the onToolCall in progress
    nFrames,                 \* frames delivered so far
    nFaults,                 \* failures of the environment so far
    ad,                      \* adapter-only specification: the invocation
    adProvider,              \* its adapter
    adHasOnToolCall,         \* whether its callbacks have an onToolCall member
    adAborted,               \* whether its AbortController is aborted
    adFrames,                \* frames it has read
    currentToolCallsAccumulator,  \* accumulator-only specification: the accumulator
    arrived,                 \* the fragments it was given, in order of arrival
    reordered,               \* the same fragments, interleaved differently
    handed,                  \* the batch handed to onToolCall
    accPc,                   \* "streaming", or "finished" after finish_reason
    toolCall,                \* executor-only specification: the call and its host
    toolResult,              \* what executeTool returned for it
    rdProvider,              \* reader-only specification: the adapter
    response,                \* the bytes of the response body
    nRead,                   \* how many of them reader.read() has delivered
    rd,                      \* the invocation, its buffer and its TextDecoder
    localTools,              \* registry-only specification: LocalToolService.localTools
    initialized,             \* LocalToolService.initialized
    listed,                  \* listings of registrations awaiting their descriptions
    lastListing,             \* the commands the last registration registered
    nRegistrations,          \* registrations of host commands so far
    commandMcpCache,         \* generation-only specification: LocalToolService.commandMcpCache
    commandGenerationStatus, \* ObsigentPluginCore.commandGenerationStatus
    isGeneratingDescription, \* LocalToolService.isGeneratingDescription
    generationTasks,         \* per run and command id, its generationTask
    runs,                    \* the calls of registerObsidianCommandsAsTools
    descPc,                  \* description-only specification: generateCommandDescription
    generationPromise,       \* its generationPromise: "none", "pending" or "settled"
    descriptionGenerationTimeoutId, \* its timer: "unset", "armed", "cleared" or "fired"
    descAborted,             \* its abortController.signal.aborted
    fullResponse,            \* its fullResponse, as the chunks appended
    nChunks,                 \* the onUpdate calls so far
    descResult               \* what it returned: "" (nothing yet), "null" or "text"

sessionVars == <<chatHistory, isGenerating, currentAbortController, aborted, nTurns,
                 inv, tool, nFrames, nFaults>>
adapterVars == <<ad, adProvider, adHasOnToolCall, adAborted, adFrames>>
accumulatorVars == <<currentToolCallsAccumulator, arrived, reordered, handed, accPc>>
executorVars == <<toolCall, toolResult>>
readerVars == <<rdProvider, response, nRead, rd>>
registryVars == <<localTools, initialized, listed, lastListing, nRegistrations>>
generationVars == <<commandMcpCache, commandGenerationStatus, isGeneratingDescription,
                    generationTasks, runs>>
descriptionVars == <<descPc, generationPromise, descriptionGenerationTimeoutId,
                     descAborted, fullResponse, nChunks, descResult>>
vars == <<chatHistory, isGenerating, currentAbortController, aborted, nTurns,
          inv, tool, nFrames, nFaults, ad, adProvider, adHasOnToolCall, adAborted,
          adFrames, currentToolCallsAccumulator, arrived, reordered, handed, accPc,
          toolCall, toolResult, rdProvider, response, nRead, rd, localTools,
          initialized, listed, lastListing, nRegistrations, commandMcpCache,
          commandGenerationStatus, isGeneratingDescription, generationTasks, runs,
          descPc, generationPromise, descriptionGenerationTimeoutId, descAborted,
          fullResponse, nChunks, descResult>>

\* onToolCall of a turn: its batch, the call whose executeTool is awaited,
\* toolResultMessages, and (history) the handlers started, each with whether
\* the turn's controller was already aborted
NoToolRun ==
    [status |-> "idle", batch |-> << >>, pos |-> 0, results |-> << >>, started |-> << >>]

TurnOf(i) == i[1]
KindOf(i) == i[2]

\* handleUserMessage passes streamCallbacks with onToolCall (part_003 291, 358-359);
\* continueGenerationWithTools passes callbacks without it (part_003 403-424)
HasOnToolCall(i) == KindOf(i) = "top"

\* a follow-up that were handed a controller of its own, which nothing aborts
OwnControllerOf(i) == IF KindOf(i) = "top" THEN TurnOf(i) ELSE NoController

\* the AbortController an invocation is handed: handleUserMessage passes its
\* abortController to generateResponse (part_003 377) and to
\* continueGenerationWithTools (344), which passes it on (431)
ControllerOf(i) == TurnOf(i)

SessionInit ==
    /\ chatHistory = << SystemPrompt >>
    /\ isGenerating = FALSE
    /\ currentAbortController = NoController
    /\ aborted = {}
    /\ nTurns = 0
    /\ inv = [i \in InvIds |-> NewInvocation]
    /\ tool = [t \in Turns |-> NoToolRun]
    /\ nFrames = 0
    /\ nFaults = 0

AdapterIdle ==
    /\ ad = NewInvocation
    /\ adProvider = "openai"
    /\ adHasOnToolCall = FALSE
    /\ adAborted = FALSE
    /\ adFrames = 0

\* no fragment has arrived
AccumulatorIdle ==
    /\ currentToolCallsAccumulator = << >>
    /\ arrived = << >>
    /\ reordered = << >>
    /\ handed = << >>
    /\ accPc = "streaming"

\* no call has been made
NoCall == [pc |-> "idle", name |-> << >>, args |-> ToolArgs("", "", ""),
           host |-> VaultOnly("ok")]
NoResult == ToolResult(FALSE, << >>)

ExecutorIdle ==
    /\ toolCall = NoCall
    /\ toolResult = NoResult

\* no response yet
NoReader == [inv |-> NewInvocation, buffer |-> << >>, pending |-> << >>]

ReaderIdle ==
    /\ rdProvider = "openai"
    /\ response = << >>
    /\ nRead = 0
    /\ rd = NoReader

\* McpMarketplaceService.ts 314, 320: the service as constructed
RegistryIdle ==
    /\ localTools = << >>
    /\ initialized = FALSE
    /\ listed = {}
    /\ lastListing = << >>
    /\ nRegistrations = 0

\* a host command may carry any id, that of a built-in tool included
CommandIds == { "obsidian_readFile", "app:reload" }
CommandNames == { "Reload app", "Reload app without saving" }

MaxRuns == 3
Runs == 1..MaxRuns

\* a cache entry (CachedCommandMcpDetails): the command name it was made for
\* and its description, "generated" by the LLM or the "default" text that
\* starts with 'Obsidian Command:'; "" is an absent member
CacheEntry(originalName, description) ==
    [originalName |-> originalName, description |-> description]

NoCacheEntry == CacheEntry("", "")

\* a generationTask: where it is, and its lockAcquired
Task(pc, lockAcquired) == [pc |-> pc, lockAcquired |-> lockAcquired]

\* a call of registerObsidianCommandsAsTools: where it is, and its obsidianCommands
Run(pc, commands) == [pc |-> pc, commands |-> commands]

\* McpMarketplaceService.ts 313-315 and part_003 commandGenerationStatus: as constructed
GenerationIdle ==
    /\ commandMcpCache = [id \in CommandIds |-> NoCacheEntry]
    /\ commandGenerationStatus = {}
    /\ isGeneratingDescription = FALSE
    /\ generationTasks = [t \in Runs \X CommandIds |-> Task("none", FALSE)]
    /\ runs = [r \in Runs |-> Run("none", << >>)]

\* part_003 524-525: before generateCommandDescription is called
DescriptionIdle ==
    /\ descPc = "idle"
    /\ generationPromise = "none"
    /\ descriptionGenerationTimeoutId = "unset"
    /\ descAborted = FALSE
    /\ fullResponse = << >>
    /\ nChunks = 0
    /\ descResult = ""

Init ==
    /\ SessionInit /\ AdapterIdle /\ AccumulatorIdle /\ ExecutorIdle /\ ReaderIdle
    /\ RegistryIdle /\ GenerationIdle /\ DescriptionIdle

(***************************************************************************)
(* The callbacks of the orchestrator (part_003 276-290, 358-370, 403-422). *)
(***************************************************************************)
HasTerminal(evs) == \E k \in 1..Len(evs) : IsTerminal(evs[k])

\* onUpdate(chunk, true) pushes {role: 'assistant', content: chunk}
RECURSIVE AssistantPushes(_, _)
AssistantPushes(evs, t) ==
    IF evs = << >> THEN << >>
    ELSE LET rest == AssistantPushes(Tail(evs), t)
         IN  IF Head(evs).cb = "onUpdate" /\ Head(evs).final
             THEN << Entry("assistant", Head(evs).text, "", << >>, t) >> \o rest
             ELSE rest

NewEvents(before, after) == SubSeq(after.events, Len(before.events) + 1, Len(after.events))

\* onFinish and onError call chatView.onGenerationFinished (part_002 245-249)
onGenerationFinished ==
    /\ isGenerating' = FALSE
    /\ currentAbortController' = NoController

\* the view after the callbacks `evs' have run
ViewAfter(evs) ==
    IF HasTerminal(evs)
    THEN onGenerationFinished
    ELSE UNCHANGED <<isGenerating, currentAbortController>>

\* an adapter step of invocation i that took it from inv[i] to a and made no
\* onToolCall: the callbacks it made run
\* callbacks whose final onUpdate writes the reply over the last entry of
\* chatHistory instead of pushing it
CallbacksRunInPlace(i, a) ==
    LET pushes == AssistantPushes(NewEvents(inv[i], a), TurnOf(i))
    IN  /\ inv' = [inv EXCEPT ![i] = a]
        /\ chatHistory' = IF pushes = << >> THEN chatHistory
                          ELSE SubSeq(chatHistory, 1, Len(chatHistory) - 1) \o pushes
        /\ ViewAfter(NewEvents(inv[i], a))

\* callbacks that answer an onError of a turn's first invocation by starting
\* the turn's follow-up invocation
CallbacksRunRetrying(i, a) ==
    LET retry == /\ KindOf(i) = "top"
                 /\ SelectEvents(NewEvents(inv[i], a), {"onError"}) # << >>
    IN  /\ inv' = [inv EXCEPT ![i] = a,
                              ![<<TurnOf(i), "followup">>].pc =
                                  IF retry THEN "startStream" ELSE @]
        /\ chatHistory' = chatHistory \o AssistantPushes(NewEvents(inv[i], a), TurnOf(i))
        /\ ViewAfter(NewEvents(inv[i], a))

CallbacksRun(i, a) ==
    /\ inv' = [inv EXCEPT ![i] = a]
    /\ chatHistory' = chatHistory \o AssistantPushes(NewEvents(inv[i], a), TurnOf(i))
    /\ ViewAfter(NewEvents(inv[i], a))

(***************************************************************************)
(* The view (part_002).                                                    *)
(***************************************************************************)
\* handleSubmit 376-382 with isGenerating false, and handleUserMessage up to
\* its first await (part_003 274, 350)
Submit ==
    /\ ~isGenerating
    /\ nTurns < MaxTurns
    /\ \E messageText \in Messages :
         chatHistory' = Append(chatHistory,
                               Entry("user", << messageText >>, "", << >>, nTurns + 1))
    /\ nTurns' = nTurns + 1
    /\ isGenerating' = TRUE
    /\ currentAbortController' = nTurns + 1
    /\ inv' = [inv EXCEPT ![<<nTurns + 1, "top">>].pc = "startStream"]
    /\ UNCHANGED <<aborted, tool, nFrames, nFaults, adapterVars, accumulatorVars, executorVars, readerVars, registryVars, generationVars, descriptionVars>>

\* stopGeneration (part_002 159-165)
\* a stop that flips the generating flag instead of clearing it
stopGenerationToggles ==
    /\ aborted' = IF currentAbortController # NoController
                  THEN aborted \cup {currentAbortController}
                  ELSE aborted
    /\ currentAbortController' = NoController
    /\ isGenerating' = ~isGenerating

\* part_002 159-165
stopGeneration ==
    /\ aborted' = IF currentAbortController # NoController
                  THEN aborted \cup {currentAbortController}
                  ELSE aborted
    /\ currentAbortController' = NoController
    /\ isGenerating' = FALSE

\* handleSubmit 372-375 with isGenerating true
Stop ==
    /\ isGenerating
    /\ stopGeneration
    /\ UNCHANGED <<chatHistory, nTurns, inv, tool, nFrames, nFaults, adapterVars, accumulatorVars, executorVars, readerVars, registryVars, generationVars, descriptionVars>>

\* onDestroy 428-430: the view is closed, which calls stopGeneration whatever
\* the view is doing; a view opened again starts idle, as stopGeneration leaves it
onDestroy ==
    /\ stopGeneration
    /\ UNCHANGED <<chatHistory, nTurns, inv, tool, nFrames, nFaults, adapterVars, accumulatorVars, executorVars, readerVars, registryVars, generationVars, descriptionVars>>

(***************************************************************************)
(* The orchestrator (part_003 273-444) driving the OpenAI adapter.         *)
(***************************************************************************)
\* the outcomes the environment may still choose: "ok", and a failure while
\* the session has had fewer than MaxFaults
Possible(outcomes) == IF nFaults < MaxFaults THEN outcomes ELSE outcomes \cap {"ok"}

Counted(outcome) == nFaults' = IF outcome = "ok" THEN nFaults ELSE nFaults + 1

\* startStreamingResponse resolved with an element: generateResponse is called
\* (part_003 372-378, 426-432) and runs to `await fetch' (OpenAIProvider.ts 71-131)
BeginGenerate(i) ==
    /\ inv[i].pc = "startStream"
    /\ \E cfg \in Possible(Configs) :
         /\ CallbacksRun(i, OpenAIConfigCheck(
                             [inv[i] EXCEPT !.calledAborted = ControllerOf(i) \in aborted,
                                            !.config = cfg], cfg))
         /\ Counted(cfg)
    /\ UNCHANGED <<aborted, nTurns, tool, nFrames, adapterVars, accumulatorVars, executorVars, readerVars, registryVars, generationVars, descriptionVars>>

\* startStreamingResponse resolved with null: the throw of part_003 351-353 / 396-398
\* and the catch of 379-389 / 433-443
StartStreamingFails(i) ==
    /\ inv[i].pc = "startStream"
    /\ nFaults < MaxFaults
    /\ nFaults' = nFaults + 1
    /\ inv' = [inv EXCEPT ![i].pc = "failed"]
    /\ onGenerationFinished
    /\ chatHistory' = Append(chatHistory,
           Entry("assistant",
                 IF KindOf(i) = "top"
                 THEN <<"Error: ", "Could not create streaming message element.">>
                 ELSE <<"Error: ", "Could not create streaming message element for continued generation.">>,
                 "", << >>, TurnOf(i)))
    /\ UNCHANGED <<aborted, nTurns, tool, nFrames, adapterVars, accumulatorVars, executorVars, readerVars, registryVars, generationVars, descriptionVars>>

FetchSettles(i) ==
    /\ inv[i].pc = "fetch"
    /\ ControllerOf(i) \notin aborted
    /\ \E outcome \in Possible(FetchOutcomes) :
         /\ CallbacksRun(i, OpenAIFetched(inv[i], outcome))
         /\ Counted(outcome)
    /\ UNCHANGED <<aborted, nTurns, tool, nFrames, adapterVars, accumulatorVars, executorVars, readerVars, registryVars, generationVars, descriptionVars>>

ErrorBodyRead(i) ==
    /\ inv[i].pc = "errbody"
    /\ ControllerOf(i) \notin aborted
    /\ CallbacksRun(i, OpenAIErrorBody(inv[i]))
    /\ UNCHANGED <<aborted, nTurns, tool, nFrames, nFaults, adapterVars, accumulatorVars, executorVars, readerVars, registryVars, generationVars, descriptionVars>>

\* the signal aborts while response.json() is pending: json() rejects, the inner
\* catch (142-144) calls response.text() on the body json() has consumed, and
\* the TypeError of that call reaches the outer catch
ErrorBodyAborted(i) ==
    /\ inv[i].pc = "errbody"
    /\ ControllerOf(i) \in aborted
    /\ CallbacksRun(i, OpenAICatch(inv[i], "TypeError"))
    /\ UNCHANGED <<aborted, nTurns, tool, nFrames, nFaults, adapterVars, accumulatorVars, executorVars, readerVars, registryVars, generationVars, descriptionVars>>

\* the outcome r of onToolCall's loop, for invocation i in adapter state a
\* (at `await callbacks.onToolCall'), batch the calls handed over
SettleToolCalls(i, a, batch, r) ==
    LET t == TurnOf(i)
        run == [status |-> r.status, batch |-> batch, pos |-> r.pos,
                results |-> r.results, started |-> tool[t].started]
    IN
    \/ /\ r.status = "await"
       \* executeTool of call r.pos has been called (part_003 307)
       /\ inv' = [inv EXCEPT ![i] = a]
       /\ tool' = [tool EXCEPT ![t] =
                     [run EXCEPT !.started =
                         Append(@, [id |-> batch[r.pos].id, afterAbort |-> t \in aborted])]]
       /\ UNCHANGED <<chatHistory, isGenerating, currentAbortController>>
    \/ /\ r.status = "throw"
       \* JSON.parse threw (part_003 299): onToolCall rejects, toolResultMessages is lost
       /\ inv' = [inv EXCEPT ![i] = OnToolCallRejected(a)]
       /\ tool' = [tool EXCEPT ![t] = run]
       /\ UNCHANGED <<chatHistory, isGenerating, currentAbortController>>
    \/ /\ r.status = "empty"
       /\ inv' = [inv EXCEPT ![i] = AfterOnToolCall(a)]
       /\ tool' = [tool EXCEPT ![t] = run]
       /\ onGenerationFinished
       /\ UNCHANGED chatHistory
    \/ /\ r.status = "done"
       \* part_003 343-344, then OpenAIProvider.ts 208-209
       /\ chatHistory' = chatHistory \o r.results
       /\ inv' = [inv EXCEPT ![i] = AfterOnToolCall(a),
                             ![<<t, "followup">>].pc = "startStream"]
       /\ tool' = [tool EXCEPT ![t] = run]
       /\ onGenerationFinished

\* reader.read() resolves with one frame (OpenAIProvider.ts 161-216)
ReadFrame(i) ==
    /\ inv[i].pc = "read"
    /\ ControllerOf(i) \notin aborted
    /\ nFrames < MaxFrames
    /\ nFrames' = nFrames + 1
    /\ \E f \in SessionFrames(inv[i].nContent) :
         LET a == OpenAIFrame(inv[i], f, HasOnToolCall(i))
         IN  IF a.pc = "toolcall"
             THEN SettleToolCalls(i, a, CompleteToolCalls(a.acc),
                                  onToolCall(CompleteToolCalls(a.acc), TurnOf(i)))
             ELSE CallbacksRun(i, a) /\ UNCHANGED tool
    /\ UNCHANGED <<aborted, nTurns, nFaults, adapterVars, accumulatorVars, executorVars, readerVars, registryVars, generationVars, descriptionVars>>

ReadDone(i) ==
    /\ inv[i].pc = "read"
    /\ ControllerOf(i) \notin aborted
    /\ CallbacksRun(i, OpenAIEndOfStream(inv[i]))
    /\ UNCHANGED <<aborted, nTurns, tool, nFrames, nFaults, adapterVars, accumulatorVars, executorVars, readerVars, registryVars, generationVars, descriptionVars>>

\* reader.read() rejects because the connection broke
ReadFails(i) ==
    /\ inv[i].pc = "read"
    /\ ControllerOf(i) \notin aborted
    /\ nFaults < MaxFaults
    /\ nFaults' = nFaults + 1
    /\ CallbacksRun(i, OpenAICatch(inv[i], "TypeError"))
    /\ UNCHANGED <<aborted, nTurns, tool, nFrames, adapterVars, accumulatorVars, executorVars, readerVars, registryVars, generationVars, descriptionVars>>

\* the pending fetch or read rejects with AbortError once the signal is aborted
AbortRejects(i) ==
    /\ inv[i].pc \in {"fetch", "read"}
    /\ ControllerOf(i) \in aborted
    /\ CallbacksRun(i, OpenAICatch(inv[i], "AbortError"))
    /\ UNCHANGED <<aborted, nTurns, tool, nFrames, nFaults, adapterVars, accumulatorVars, executorVars, readerVars, registryVars, generationVars, descriptionVars>>

\* the awaited executeTool of call tool[t].pos settles (part_003 307-331),
\* and the loop runs on
ToolReturns(t) ==
    /\ tool[t].status = "await"
    /\ inv[<<t, "top">>].pc = "toolcall"
    /\ \E vault \in Possible(VaultOutcomes) :
         LET run == tool[t]
             tc == run.batch[run.pos]
             result == executeTool(tc.name, JsonParse(tc.arguments), VaultOnly(vault))
         IN  /\ SettleToolCalls(<<t, "top">>, inv[<<t, "top">>], run.batch,
                 RunToolCalls(run.batch, run.pos + 1,
                              Append(run.results, ExecutedToolMessage(tc, result, t)), t))
             /\ Counted(vault)
    /\ UNCHANGED <<aborted, nTurns, nFrames, adapterVars, accumulatorVars, executorVars, readerVars, registryVars, generationVars, descriptionVars>>

SessionNext ==
    \/ Submit
    \/ Stop
    \/ onDestroy
    \/ \E i \in InvIds : BeginGenerate(i)
    \/ \E i \in InvIds : StartStreamingFails(i)
    \/ \E i \in InvIds : FetchSettles(i)
    \/ \E i \in InvIds : ErrorBodyRead(i)
    \/ \E i \in InvIds : ErrorBodyAborted(i)
    \/ \E i \in InvIds : ReadFrame(i)
    \/ \E i \in InvIds : ReadDone(i)
    \/ \E i \in InvIds : ReadFails(i)
    \/ \E i \in InvIds : AbortRejects(i)
    \/ \E t \in Turns : ToolReturns(t)

Next == SessionNext

Spec == Init /\ [][Next]_vars

\* The steps the program and its host complete by themselves: a rejected or
\* resolved promise runs its continuation, startStreamingResponse and a tool
\* handler return.  What the backend sends, and when, is not assumed.
HostProgress ==
    \/ \E i \in InvIds : BeginGenerate(i)
    \/ \E i \in InvIds : ErrorBodyAborted(i)
    \/ \E i \in InvIds : AbortRejects(i)
    \/ \E t \in Turns : ToolReturns(t)

FairSpec == Spec /\ WF_vars(HostProgress)

(***************************************************************************)
(* One invocation of one adapter, with callbacks that only record: the     *)
(* adapter-only specification.                                             *)
(***************************************************************************)
\* generateResponse is called and runs to `await fetch'
AdapterCall ==
    /\ ad.pc = "none"
    /\ \E p \in Providers, cfg \in AdapterConfigs, h \in BOOLEAN :
         /\ h => p = "openai"
         /\ adProvider' = p
         /\ adHasOnToolCall' = h
         /\ ad' = ConfigCheck(p, [ad EXCEPT !.config = cfg], cfg)
    /\ UNCHANGED <<adAborted, adFrames, sessionVars, accumulatorVars, executorVars, readerVars, registryVars, generationVars, descriptionVars>>

\* abortController.abort() while the invocation is suspended
AdapterAbort ==
    /\ ad.pc \in {"fetch", "errbody", "read", "toolcall"}
    /\ ~adAborted
    /\ adAborted' = TRUE
    /\ UNCHANGED <<ad, adProvider, adHasOnToolCall, adFrames, sessionVars, accumulatorVars, executorVars, readerVars, registryVars, generationVars, descriptionVars>>

AdapterFetchSettles ==
    /\ ad.pc = "fetch"
    /\ ~adAborted
    /\ \E outcome \in FetchOutcomes : ad' = Fetched(adProvider, ad, outcome)
    /\ UNCHANGED <<adProvider, adHasOnToolCall, adAborted, adFrames, sessionVars, accumulatorVars, executorVars, readerVars, registryVars, generationVars, descriptionVars>>

AdapterErrorBodyRead ==
    /\ ad.pc = "errbody"
    /\ ~adAborted
    /\ ad' = ErrorBody(adProvider, ad)
    /\ UNCHANGED <<adProvider, adHasOnToolCall, adAborted, adFrames, sessionVars, accumulatorVars, executorVars, readerVars, registryVars, generationVars, descriptionVars>>

\* as ErrorBodyAborted: response.text() on the consumed body throws TypeError
AdapterErrorBodyAborted ==
    /\ ad.pc = "errbody"
    /\ adAborted
    /\ ad' = Catch(adProvider, ad, "TypeError")
    /\ UNCHANGED <<adProvider, adHasOnToolCall, adAborted, adFrames, sessionVars, accumulatorVars, executorVars, readerVars, registryVars, generationVars, descriptionVars>>

AdapterReadFrame ==
    /\ ad.pc = "read"
    /\ ~adAborted
    /\ adFrames < MaxAdFrames
    /\ adFrames' = adFrames + 1
    /\ \E f \in AdapterFrames(adProvider, ad.nContent) :
         ad' = Frame(adProvider, ad, f, adHasOnToolCall)
    /\ UNCHANGED <<adProvider, adHasOnToolCall, adAborted, sessionVars, accumulatorVars, executorVars, readerVars, registryVars, generationVars, descriptionVars>>

AdapterReadDone ==
    /\ ad.pc = "read"
    /\ ~adAborted
    /\ \E leftover \in (IF adProvider = "ollama" THEN Leftovers ELSE {""}) :
         ad' = EndOfStream(adProvider, ad, leftover)
    /\ UNCHANGED <<adProvider, adHasOnToolCall, adAborted, adFrames, sessionVars, accumulatorVars, executorVars, readerVars, registryVars, generationVars, descriptionVars>>

AdapterReadFails ==
    /\ ad.pc = "read"
    /\ ~adAborted
    /\ ad' = Catch(adProvider, ad, "TypeError")
    /\ UNCHANGED <<adProvider, adHasOnToolCall, adAborted, adFrames, sessionVars, accumulatorVars, executorVars, readerVars, registryVars, generationVars, descriptionVars>>

\* the pending fetch or read rejects with AbortError once the signal is aborted
AdapterAbortRejects ==
    /\ ad.pc \in {"fetch", "read"}
    /\ adAborted
    /\ ad' = Catch(adProvider, ad, "AbortError")
    /\ UNCHANGED <<adProvider, adHasOnToolCall, adAborted, adFrames, sessionVars, accumulatorVars, executorVars, readerVars, registryVars, generationVars, descriptionVars>>

\* the awaited onToolCall resolves
AdapterToolCallResolves ==
    /\ ad.pc = "toolcall"
    /\ ad' = AfterOnToolCall(ad)
    /\ UNCHANGED <<adProvider, adHasOnToolCall, adAborted, adFrames, sessionVars, accumulatorVars, executorVars, readerVars, registryVars, generationVars, descriptionVars>>

\* the awaited onToolCall rejects
AdapterToolCallRejects ==
    /\ ad.pc = "toolcall"
    /\ ad' = OnToolCallRejected(ad)
    /\ UNCHANGED <<adProvider, adHasOnToolCall, adAborted, adFrames, sessionVars, accumulatorVars, executorVars, readerVars, registryVars, generationVars, descriptionVars>>

AdapterNext ==
    \/ AdapterCall
    \/ AdapterAbort
    \/ AdapterFetchSettles
    \/ AdapterErrorBodyRead
    \/ AdapterErrorBodyAborted
    \/ AdapterReadFrame
    \/ AdapterReadDone
    \/ AdapterReadFails
    \/ AdapterAbortRejects
    \/ AdapterToolCallResolves
    \/ AdapterToolCallRejects

AdapterSpec == Init /\ [][AdapterNext]_vars

(***************************************************************************)
(* The tool-call accumulator on its own (OpenAIProvider.ts 187-210): the   *)
(* fragments of one response arrive one by one, each applied as            *)
(* delta.tool_calls.forEach applies it, until finish_reason "tool_calls"   *)
(* hands the complete records over.  Beside the order of arrival the       *)
(* specification keeps a second order of the same fragments, in which      *)
(* fragments of different indices are interleaved differently and the      *)
(* fragments of one index keep their order.                                *)
(***************************************************************************)
MaxFragments == 4

\* a fragment: tool_calls[k] of a delta, its index a natural number as in the
\* protocol; "" and << >> stand for a member the fragment lacks
Fragment(index, id, name, arguments) ==
    [index |-> index, id |-> id, name |-> name, arguments |-> arguments]

\* the fragments a backend sends: a call whose name and arguments come in
\* pieces, a call sent whole, a later id for it, and arguments of a call that
\* never gets an id
StreamFragments ==
    { Fragment(0, "call_a", <<"obsidian_">>, << >>),
      Fragment(0, "", <<"readFile">>, << >>),
      Fragment(0, "", << >>, ArgsTruncated),
      Fragment(0, "", << >>, <<"\"a.md\"}">>),
      Fragment(1, "call_b", <<"foo_bar">>, ArgsEmptyObject),
      Fragment(1, "call_e", << >>, << >>),
      Fragment(2, "", << >>, ArgsEmptyObject) }

\* s with f put in front of its p-th element (at the end for p = Len(s) + 1)
InsertAt(s, p, f) == SubSeq(s, 1, p - 1) \o << f >> \o SubSeq(s, p, Len(s))

\* the places f can take in s without overtaking a fragment of its own index
PlacesFor(s, f) ==
    {p \in 1..(Len(s) + 1) : \A q \in p..Len(s) : s[q].index # f.index}

\* one more fragment arrives (188-197)
FragmentArrives ==
    /\ accPc = "streaming"
    /\ Len(arrived) < MaxFragments
    /\ \E f \in StreamFragments :
          /\ currentToolCallsAccumulator' = ApplyFragment(currentToolCallsAccumulator, f)
          /\ arrived' = Append(arrived, f)
          /\ \E p \in PlacesFor(reordered, f) : reordered' = InsertAt(reordered, p, f)
    /\ UNCHANGED <<handed, accPc, sessionVars, adapterVars, executorVars, readerVars, registryVars, generationVars, descriptionVars>>

\* finish_reason "tool_calls" (200-204)
FinishToolCalls ==
    /\ accPc = "streaming"
    /\ handed' = CompleteToolCalls(currentToolCallsAccumulator)
    /\ accPc' = "finished"
    /\ UNCHANGED <<currentToolCallsAccumulator, arrived, reordered, sessionVars,
                   adapterVars, executorVars, readerVars, registryVars, generationVars, descriptionVars>>

AccumulatorNext ==
    \/ FragmentArrives
    \/ FinishToolCalls

AccumulatorSpec == Init /\ [][AccumulatorNext]_vars

(***************************************************************************)
(* LocalToolService.executeTool on its own: one call, for any function     *)
(* name, arguments and host.                                               *)
(***************************************************************************)
\* the function names of the calls: the built-in tools, a host command and a
\* name nothing answers to
CalledNames ==
    {<<n>> : n \in BuiltinToolNames} \cup { <<"app:reload">>, <<"foo_bar">> }

\* the ids of the commands a host may have registered
HostCommandIds == { <<"obsidian_readFile">>, <<"app:reload">> }

CalledArgs ==
    {ToolArgs(path, content, query) :
        path \in {"", "a.md"}, content \in {"", "text"}, query \in {"", "todo"}}

Hosts ==
    {Host(commands, commandThrows, vault) :
        commands \in SUBSET HostCommandIds, commandThrows \in BOOLEAN,
        vault \in VaultOutcomes}

\* executeTool is called
ToolCalled ==
    /\ toolCall.pc = "idle"
    /\ \E name \in CalledNames, args \in CalledArgs, host \in Hosts :
          toolCall' = [pc |-> "called", name |-> name, args |-> args, host |-> host]
    /\ UNCHANGED <<toolResult, sessionVars, adapterVars, accumulatorVars, readerVars, registryVars, generationVars, descriptionVars>>

\* its promise settles
ToolSettles ==
    /\ toolCall.pc = "called"
    /\ toolResult' = executeTool(toolCall.name, toolCall.args, toolCall.host)
    /\ toolCall' = [toolCall EXCEPT !.pc = "returned"]
    /\ UNCHANGED <<sessionVars, adapterVars, accumulatorVars, readerVars, registryVars, generationVars, descriptionVars>>

ExecutorNext ==
    \/ ToolCalled
    \/ ToolSettles

ExecutorSpec == Init /\ [][ExecutorNext]_vars

(***************************************************************************)
(* The read loops on their own (OpenAIProvider.ts 157-217 and 411-479,     *)
(* OllamaProvider.ts 98-149): the bytes of one response body are delivered *)
(* by reader.read() in chunks of any size, decoded, appended to the        *)
(* buffer, and the complete frames of the buffer are handled.  Text is a   *)
(* sequence of pieces; a piece is never cut, the cuts fall between pieces. *)
(***************************************************************************)
MaxStreamFrames == 2

\* TextDecoder.decode(value, {stream: true}): C3 A9 is the UTF-8 encoding of
\* one character; a lead byte at the end of a chunk is held back (pending)
\* until its continuation arrives; a byte that fits nowhere decodes to U+FFFD
RECURSIVE decode(_, _)
decode(pending, bytes) ==
    IF bytes = << >> THEN [text |-> << >>, pending |-> pending]
    ELSE LET b == Head(bytes)
             after(t, pend, rest) == LET r == decode(pend, rest)
                                     IN  [r EXCEPT !.text = t \o @]
         IN  IF pending # << >>
             THEN IF b = "A9" THEN after(<<"e-acute">>, << >>, Tail(bytes))
                  ELSE after(<<"U+FFFD">>, << >>, bytes)
             ELSE IF b = "C3" THEN after(<< >>, <<"C3">>, Tail(bytes))
             ELSE IF b = "A9" THEN after(<<"U+FFFD">>, << >>, Tail(bytes))
             ELSE after(<< b >>, << >>, Tail(bytes))

\* the separator of frames: a blank line for the SSE adapters, a newline for
\* Ollama's NDJSON
Separator(p) == IF p = "ollama" THEN <<"\n">> ELSE <<"\n", "\n">>

\* buffer.indexOf(separator): the first place it occurs, 0 for none
IndexOf(buf, sep) ==
    LET places == {i \in 1..(Len(buf) - Len(sep) + 1) : SubSeq(buf, i, i + Len(sep) - 1) = sep}
    IN  IF places = {} THEN 0 ELSE MinOf(places)

\* OpenAIProvider.ts 172-182: one chunk of the buffer
ParseOpenAIChunk(chunk) ==
    IF chunk = << >> \/ Head(chunk) # "data: " THEN PlainFrame("comment")
    ELSE LET jsonData == Tail(chunk)
         IN  IF jsonData = <<"[DONE]">> THEN PlainFrame("done")
             ELSE IF Len(jsonData) = 3 /\ jsonData[1] = "{\"choices\":[{\"delta\":{\"content\":\""
                     /\ jsonData[3] = "\"}}]}"
             THEN DataFrame(<< jsonData[2] >>, << >>, "")
             ELSE IF jsonData = <<"{\"choices\":[{\"delta\":{},\"finish_reason\":\"stop\"}]}">>
             THEN DataFrame(<< >>, << >>, "stop")
             ELSE PlainFrame("malformed")

\* text.trim() === ''
IsBlank(text) == \A k \in DOMAIN text : text[k] = " "

\* OllamaProvider.ts 127-146: one line of the buffer
ParseOllamaLine(line) ==
    IF IsBlank(line) THEN PlainFrame("blank")
    ELSE IF line = <<"{\"message\":{\"content\":", "\"Hi\"}}">>
    THEN [PlainFrame("content") EXCEPT !.content = <<"Hi">>]
    ELSE IF line = <<"{\"done\":true}">> THEN PlainFrame("done")
    ELSE IF line = <<"{\"error\":\"overloaded\"}">> THEN PlainFrame("error")
    ELSE PlainFrame("malformed")

\* OllamaProvider.ts 103-115: what is left in the buffer at the end of the stream
OllamaLeftover(buf) ==
    LET f == ParseOllamaLine(buf)
    IN  IF f.kind \in {"content", "done", "malformed"} THEN f.kind ELSE ""

\* split('\n')
RECURSIVE SplitLines(_)
SplitLines(text) ==
    LET i == IndexOf(text, <<"\n">>)
    IN  IF i = 0 THEN << text >>
        ELSE << SubSeq(text, 1, i - 1) >> \o SplitLines(SubSeq(text, i + 1, Len(text)))

\* OpenAIProvider.ts 429-435: the rest of the last line that starts with
\* prefix, << >> when there is none
RECURSIVE LastField(_, _)
LastField(lines, prefix) ==
    IF lines = << >> THEN << >>
    ELSE LET line == lines[Len(lines)]
         IN  IF line # << >> /\ Head(line) = prefix THEN Tail(line)
             ELSE LastField(SubSeq(lines, 1, Len(lines) - 1), prefix)

\* the data JSON.parse accepts
AnthropicJson ==
    { <<"{\"delta\":{\"type\":\"text_delta\",\"text\":\"Hi\"}}">>,
      <<"{\"type\":\"message_stop\"}">>, <<"{\"type\":\"ping\"}">>,
      <<"{\"error\":{\"message\":\"overloaded\"}}">> }

\* OpenAIProvider.ts 424-474: one event of the buffer
ParseAnthropicEvent(chunk) ==
    LET lines == SplitLines(chunk)
        eventType == LastField(lines, "event: ")
        eventData == LastField(lines, "data: ")
    IN  IF eventData = << >> THEN PlainFrame("ping")
        ELSE IF eventData \notin AnthropicJson THEN PlainFrame("malformed")
        ELSE IF eventType = <<"content_block_delta">>
        THEN IF eventData = <<"{\"delta\":{\"type\":\"text_delta\",\"text\":\"Hi\"}}">>
             THEN [PlainFrame("content_block_delta") EXCEPT !.content = <<"Hi">>]
             ELSE PlainFrame("ping")
        ELSE IF eventType = <<"message_stop">> THEN PlainFrame("message_stop")
        ELSE IF eventType = <<"error">> THEN PlainFrame("error")
        ELSE PlainFrame("ping")

ParseChunk(p, chunk) ==
    IF p = "openai" THEN ParseOpenAIChunk(chunk)
    ELSE IF p = "ollama" THEN ParseOllamaLine(chunk)
    ELSE ParseAnthropicEvent(chunk)

\* the inner while loop: the complete frames of the buffer are handled one
\* after the other until a handler returns; what follows the last separator stays
RECURSIVE Drain(_, _, _)
Drain(p, a, buf) ==
    LET i == IndexOf(buf, Separator(p))
    IN  IF a.pc # "read" \/ i = 0 THEN [inv |-> a, buffer |-> buf]
        ELSE Drain(p, Frame(p, a, ParseChunk(p, SubSeq(buf, 1, i - 1)), FALSE),
                   SubSeq(buf, i + Len(Separator(p)), Len(buf)))

\* a read loop that parses each chunk by itself and drops what it could not use
FeedUnbuffered(p, r, bytes) ==
    LET d == decode(r.pending, bytes)
        n == Drain(p, r.inv, d.text)
    IN  [inv |-> n.inv, buffer |-> << >>, pending |-> d.pending]

\* one turn of the outer loop for a chunk `bytes':
\* buffer += decoder.decode(value, {stream: true}), then the inner loop
Feed(p, r, bytes) ==
    LET d == decode(r.pending, bytes)
        n == Drain(p, r.inv, r.buffer \o d.text)
    IN  [inv |-> n.inv, buffer |-> n.buffer, pending |-> d.pending]

\* the frames a backend sends, as bytes
ByteFrames(p) ==
    IF p = "openai"
    THEN { <<"data: ", "{\"choices\":[{\"delta\":{\"content\":\"", "C3", "A9", "\"}}]}">>,
           <<"data: ", "{\"choices\":[{\"delta\":{},\"finish_reason\":\"stop\"}]}">>,
           <<"data: ", "[DONE]">>,
           <<": keep-alive">>,
           <<"data: ", "{\"choices\":[{\"delta\":{\"content\":\"">> }
    ELSE IF p = "ollama"
    THEN { <<"{\"message\":{\"content\":", "\"Hi\"}}">>,
           <<"{\"done\":true}">>,
           <<"{\"error\":\"overloaded\"}">>,
           <<" ">>,
           <<"{\"message\":{\"content\":">> }
    ELSE { <<"event: ", "content_block_delta", "\n",
             "data: ", "{\"delta\":{\"type\":\"text_delta\",\"text\":\"Hi\"}}">>,
           <<"event: ", "message_stop", "\n", "data: ", "{\"type\":\"message_stop\"}">>,
           <<"event: ", "ping", "\n", "data: ", "{\"type\":\"ping\"}">>,
           <<"event: ", "error", "\n", "data: ", "{\"error\":{\"message\":\"overloaded\"}}">>,
           <<"event: ", "content_block_delta", "\n", "data: ", "{\"delta\":">> }

\* frames, each followed by the separator
RECURSIVE Join(_, _)
Join(frames, sep) ==
    IF frames = << >> THEN << >> ELSE Head(frames) \o sep \o Join(Tail(frames), sep)

\* the response bodies: up to MaxStreamFrames frames, and then nothing or a
\* last frame that lacks its separator
Responses(p) ==
    { Join(fs, Separator(p)) \o tail :
        fs \in UNION {[1..n -> ByteFrames(p)] : n \in 1..MaxStreamFrames},
        tail \in {<< >>} \cup ByteFrames(p) }

\* response.body.getReader() of a 2xx response
ResponseStarts ==
    /\ rd.inv.pc = "none"
    /\ \E p \in Providers :
         \E body \in Responses(p) :
            /\ rdProvider' = p
            /\ response' = body
    /\ nRead' = 0
    /\ rd' = [NoReader EXCEPT !.inv.pc = "read"]
    /\ UNCHANGED <<sessionVars, adapterVars, accumulatorVars, executorVars, registryVars, generationVars, descriptionVars>>

\* reader.read() resolves with the next n bytes
ReadChunk ==
    /\ rd.inv.pc = "read"
    /\ \E n \in 1..(Len(response) - nRead) :
          /\ rd' = Feed(rdProvider, rd, SubSeq(response, nRead + 1, nRead + n))
          /\ nRead' = nRead + n
    /\ UNCHANGED <<rdProvider, response, sessionVars, adapterVars, accumulatorVars,
                   executorVars, registryVars, generationVars, descriptionVars>>

\* reader.read() resolves with done
ReadEnds ==
    /\ rd.inv.pc = "read"
    /\ nRead = Len(response)
    /\ rd' = [rd EXCEPT !.inv = EndOfStream(rdProvider, rd.inv, OllamaLeftover(rd.buffer))]
    /\ UNCHANGED <<rdProvider, response, nRead, sessionVars, adapterVars,
                   accumulatorVars, executorVars, registryVars, generationVars, descriptionVars>>

ReaderNext ==
    \/ ResponseStarts
    \/ ReadChunk
    \/ ReadEnds

ReaderSpec == Init /\ [][ReaderNext]_vars

(***************************************************************************)
(* The tool registry of LocalToolService (McpMarketplaceService.ts         *)
(* 308-705).  A tool definition is its name and what the rest of it        *)
(* (description, schema, annotations) was built from; a host command is    *)
(* its id and its display name.  A registration of the host's commands     *)
(* lists them, awaits the generated descriptions, and then rewrites the    *)
(* registry in one synchronous block, so two registrations can be between  *)
(* their listing and their rewrite at the same time.                       *)
(***************************************************************************)
MaxRegistrations == 3
MaxOverlap == 2

Tool(name, definition) == [name |-> name, definition |-> definition]

Command(id, name) == [id |-> id, name |-> name]

\* 643-703: the three built-in definitions
BuiltinTool(name) == Tool(name, "builtin")

\* 601-606: the definition built for a host command
CommandTool(command) == Tool(command.id, command.name)

\* Array.prototype.findIndex on the name; 0 stands for the code's -1
findIndex(tools, name) ==
    IF \E k \in DOMAIN tools : tools[k].name = name
        THEN CHOOSE k \in DOMAIN tools :
                 /\ tools[k].name = name
                 /\ \A j \in 1..(k - 1) : tools[j].name # name
        ELSE 0

\* 631-635
addToolIfNotExists(tools, mcpTool) ==
    IF findIndex(tools, mcpTool.name) = 0 THEN Append(tools, mcpTool) ELSE tools

\* 630-705
registerLocalTools(tools) ==
    addToolIfNotExists(
        addToolIfNotExists(
            addToolIfNotExists(tools, BuiltinTool("obsidian_readFile")),
            BuiltinTool("obsidian_writeFile")),
        BuiltinTool("obsidian_searchNotes"))

\* 579-583
FilterDynamicTools(tools) ==
    SelectSeq(tools, LAMBDA t : t.name \in BuiltinToolNames)

RegisterCommandPushing(tools, command) == Append(tools, CommandTool(command))

\* 608-615: push, or replace in place
RegisterCommand(tools, command) ==
    LET mcpTool == CommandTool(command)
        existingToolIndex == findIndex(tools, mcpTool.name)
    IN  IF existingToolIndex = 0
            THEN Append(tools, mcpTool)
            ELSE [tools EXCEPT ![existingToolIndex] = mcpTool]

\* 585-616: for (const command of obsidianCommands)
RECURSIVE RegisterCommands(_, _)
RegisterCommands(tools, commands) ==
    IF commands = << >> THEN tools
    ELSE RegisterCommands(RegisterCommand(tools, Head(commands)), Tail(commands))

\* 579-616: the synchronous rewrite of the registry
RewriteLocalTools(tools, commands) ==
    RegisterCommands(FilterDynamicTools(tools), commands)

\* app.commands.listCommands(): one command per id, in any order
Listings ==
    { << >> }
    \cup { <<Command(i, n)>> : i \in CommandIds, n \in CommandNames }
    \cup { l \in { <<Command(i, n), Command(j, m)>> :
                       i \in CommandIds, j \in CommandIds,
                       n \in CommandNames, m \in CommandNames } : l[1].id # l[2].id }

\* init() (338-353): the built-ins, then the host's commands when the layout
\* is ready (381-384); the changed listener is attached only afterwards
init ==
    /\ ~initialized
    /\ nRegistrations < MaxRegistrations
    /\ \E layoutReady \in BOOLEAN, obsidianCommands \in Listings :
          IF layoutReady
              THEN /\ localTools' = RewriteLocalTools(registerLocalTools(localTools),
                                                      obsidianCommands)
                   /\ lastListing' = obsidianCommands
              ELSE /\ localTools' = registerLocalTools(localTools)
                   /\ UNCHANGED lastListing
    /\ initialized' = TRUE
    /\ nRegistrations' = nRegistrations + 1
    /\ UNCHANGED <<listed, sessionVars, adapterVars, accumulatorVars, executorVars,
                   readerVars, generationVars, descriptionVars>>

\* the debounced "changed" handler (326-329) reaches listCommands() (388)
debouncedRegisterCommands ==
    /\ initialized
    /\ nRegistrations < MaxRegistrations
    /\ Cardinality(listed) < MaxOverlap
    /\ \E obsidianCommands \in Listings : listed' = listed \cup {obsidianCommands}
    /\ nRegistrations' = nRegistrations + 1
    /\ UNCHANGED <<localTools, initialized, lastListing, sessionVars, adapterVars,
                   accumulatorVars, executorVars, readerVars, generationVars, descriptionVars>>

\* Promise.all(generationPromises) has settled (570): the rewrite (579-616)
registerObsidianCommandsAsTools ==
    /\ \E obsidianCommands \in listed :
          /\ localTools' = RewriteLocalTools(localTools, obsidianCommands)
          /\ lastListing' = obsidianCommands
          /\ listed' = listed \ {obsidianCommands}
    /\ UNCHANGED <<initialized, nRegistrations, sessionVars, adapterVars,
                   accumulatorVars, executorVars, readerVars, generationVars, descriptionVars>>

\* destroy() (355-372)
destroy ==
    /\ initialized
    /\ initialized' = FALSE
    /\ UNCHANGED <<localTools, listed, lastListing, nRegistrations, sessionVars,
                   adapterVars, accumulatorVars, executorVars, readerVars, generationVars, descriptionVars>>

RegistryNext ==
    \/ init
    \/ debouncedRegisterCommands
    \/ registerObsidianCommandsAsTools
    \/ destroy

RegistrySpec == Init /\ [][RegistryNext]_vars

(***************************************************************************)
(* Properties.                                                             *)
(***************************************************************************)
\* the content deltas the callbacks have forwarded, in call order
RECURSIVE Forwarded(_)
Forwarded(evs) ==
    IF evs = << >> THEN << >>
    ELSE IF Head(evs).cb \in {"onUpdate", "onContent"} /\ ~Head(evs).final
         THEN << Head(evs).text >> \o Forwarded(Tail(evs))
         ELSE Forwarded(Tail(evs))

\* the first n content deltas of a stream, and their concatenation
StreamDeltas(n) == [k \in 1..n |-> Delta(k)]

RECURSIVE ConcatDeltas(_)
ConcatDeltas(n) == IF n = 0 THEN << >> ELSE ConcatDeltas(n - 1) \o Delta(n)

\* the entries of one role that turn t has pushed
EntriesOf(t, role) == SelectSeq(chatHistory, LAMBDA e : e.turn = t /\ e.role = role)

ToolEntriesFor(t, id) ==
    SelectSeq(chatHistory, LAMBDA e : e.turn = t /\ e.role = "tool" /\ e.tool_call_id = id)

\* C1: an OpenAI-compatible invocation whose response is a well-formed SSE
\* stream that ended in [DONE] or in a chunk carrying finish_reason has made
\* exactly one terminal callback (onFinish or onError), and the deltas it
\* forwarded are the stream's content deltas in their order.
C1_ExactlyOneTerminalEvent ==
    ( /\ adProvider = "openai"
      /\ ad.pc = "returned"
      /\ ad.raised = ""
      /\ ~ad.malformed
      /\ ad.lastFrame \in {"finish", "done"} )
    => /\ Len(Terminals(ad.events)) = 1
       /\ Forwarded(ad.events) = StreamDeltas(ad.nContent)

\* generateResponse has been called and has not returned, and its turn has not
\* been cancelled
InFlight(i) ==
    /\ inv[i].pc \in {"fetch", "errbody", "read", "toolcall"}
    /\ TurnOf(i) \notin aborted

\* C2: at any time at most one generateResponse invocation on chatHistory is
\* in flight; no top-level turn starts while an earlier turn or its follow-up
\* is still streaming.
C2_AtMostOneInFlight == Cardinality({i \in InvIds : InFlight(i)}) <= 1

\* C3: every `tool' entry of chatHistory carries the id of a tool call listed
\* in the tool_calls of an earlier `assistant' entry.
C3_ToolEntryAnswersAssistantCall ==
    \A k \in DOMAIN chatHistory :
        chatHistory[k].role = "tool" =>
            \E j \in 1..(k - 1) :
                /\ chatHistory[j].role = "assistant"
                /\ \E c \in DOMAIN chatHistory[j].tool_calls :
                       chatHistory[j].tool_calls[c].id = chatHistory[k].tool_call_id

\* onToolCall of turn t has run to its end or to its exception
BatchSettled(t) == tool[t].status \in {"done", "throw"}

\* C4: when a batch holds a call whose arguments are not valid JSON, every
\* call of the batch still gets exactly one `tool' entry, and the turn goes on
\* to its follow-up invocation and to a terminal event.
C4_BadArgumentsAreConfined ==
    \A t \in Turns :
        ( /\ BatchSettled(t)
          /\ \E k \in DOMAIN tool[t].batch : ~JsonParses(tool[t].batch[k].arguments) )
        => /\ \A k \in DOMAIN tool[t].batch :
                  Len(ToolEntriesFor(t, tool[t].batch[k].id)) = 1
           /\ inv[<<t, "followup">>].pc # "none"
           /\ HasTerminal(inv[<<t, "top">>].events)

\* C5: a tool-level failure (no tool of that name, or a handler that returns
\* an error result) becomes a `tool' entry with the error text in chatHistory,
\* and the follow-up invocation is still issued.
C5_ToolFailureBecomesEntry ==
    \A t \in Turns :
        BatchSettled(t) =>
            \A k \in DOMAIN tool[t].results :
                Head(tool[t].results[k].content) = "Error: " =>
                    /\ \E h \in DOMAIN chatHistory : chatHistory[h] = tool[t].results[k]
                    /\ inv[<<t, "followup">>].pc # "none"

\* C6: a turn whose stream held content deltas d1..dn and then finish_reason
\* "stop" has pushed exactly one `assistant' entry, with content d1+...+dn.
C6_AssistantEntryIsConcatenation ==
    \A t \in Turns :
        LET a == inv[<<t, "top">>]
        IN  (a.pc = "returned" /\ Terminals(a.events) = << OnFinish("stop") >>)
            => EntriesOf(t, "assistant")
                   = << Entry("assistant", ConcatDeltas(a.nContent), "", << >>, t) >>

\* C7: in each adapter, an abort while the fetch or a stream read is pending
\* (the pending promise rejects with AbortError) is reported as
\* onFinish('aborted'), and onError is never called for that invocation.
\* The body of a non-2xx response is not such a read: the response has
\* failed already and is reported by onError, aborted or not.
C7_AbortReportsFinishAborted ==
    ad.raised = "AbortError" =>
        /\ Terminals(ad.events) = << OnFinish("aborted") >>
        /\ SelectEvents(ad.events, {"onError"}) = << >>

C7_AbortedMidStream ==
    /\ adProvider = "ollama"
    /\ ad.raised = "AbortError"
    /\ ad.nContent >= 1
    /\ ad.pc = "returned"

\* C8: when a turn is cancelled mid-stream after content deltas were
\* forwarded, onFinish('aborted') is the turn's only terminal event and
\* chatHistory never receives an `assistant' entry for the turn.
C8_AbortCommitsNothing ==
    \A t \in Turns :
        LET a == inv[<<t, "top">>]
        IN  (a.raised = "AbortError" /\ a.nContent >= 1)
            => /\ Terminals(a.events) = << OnFinish("aborted") >>
               /\ inv[<<t, "followup">>].events = << >>
               /\ EntriesOf(t, "assistant") = << >>

C8_CancelledAfterDeltas ==
    \E t \in Turns :
        /\ inv[<<t, "top">>].raised = "AbortError"
        /\ inv[<<t, "top">>].nContent >= 2
        /\ inv[<<t, "top">>].pc = "returned"
        /\ nTurns > t

\* the calls of the batch invocation i was delivered and has finished on
BatchSize(i) ==
    IF inv[i].pc = "returned" /\ Terminals(inv[i].events) = << OnFinish("tool_calls") >>
    THEN Len(CompleteToolCalls(inv[i].acc))
    ELSE 0

\* C9: every completed batch, one delivered to a follow-up invocation
\* included, is executed with one `tool' entry per call; no turn finishes
\* with a delivered batch left unexecuted.
C9_DeliveredBatchesAreExecuted ==
    \A t \in Turns :
        Len(EntriesOf(t, "tool")) = BatchSize(<<t, "top">>) + BatchSize(<<t, "followup">>)

\* C10: once a turn's AbortController is aborted, no tool handler of the turn
\* is started and no follow-up generateResponse is invoked.
C10_NoStepAfterAbort ==
    \A t \in Turns :
        /\ \A k \in DOMAIN tool[t].started : ~tool[t].started[k].afterAbort
        /\ ~inv[<<t, "followup">>].calledAborted

\* turn t has an invocation that has been started and has not ended
TurnActive(t) ==
    \E k \in Kinds : inv[<<t, k>>].pc \in {"startStream", "fetch", "errbody", "read", "toolcall"}

\* C11: the controller handed to handleUserMessage is the one every invocation
\* of the turn is given, follow-ups included: once it is aborted, in whatever
\* state the turn is, the view is idle for that turn and eventually no
\* invocation of the turn is in flight.
C11_AbortEndsTheTurn ==
    \A t \in Turns : (t \in aborted) ~> (~TurnActive(t) /\ currentAbortController # t)

C11_FollowUpSawTheAbort ==
    \E t \in Turns :
        /\ t \in aborted
        /\ inv[<<t, "followup">>].calledAborted
        /\ inv[<<t, "followup">>].raised = "AbortError"
        /\ ~TurnActive(t)

\* C12: in every adapter, settings that lack the API endpoint or the default
\* model make generateResponse report a configuration error by onError at
\* once, and fetch is never called: the invocation has returned with that
\* onError as its only callback.
C12_MissingSettingIsConfigurationError ==
    ad.config \in {"noEndpoint", "noModel"} =>
        /\ ad.pc = "returned"
        /\ Len(ad.events) = 1
        /\ ad.events[1].cb = "onError"

\* the invocation has met a non-2xx response (and read its body), a malformed
\* frame, or an error the backend reported in-band
MetStreamError(a) ==
    \/ a.httpError /\ a.pc # "errbody"
    \/ a.malformed
    \/ a.lastFrame = "error"

\* C13: in every adapter a non-2xx response, a malformed frame and an in-band
\* error each surface by onError and end the stream: the invocation has
\* returned, and no content delta or tool-call event follows the onError.
C13_StreamErrorsTerminate ==
    MetStreamError(ad) =>
        /\ ad.pc = "returned"
        /\ \E k \in DOMAIN ad.events :
               /\ ad.events[k].cb = "onError"
               /\ \A j \in DOMAIN ad.events :
                      j > k => ad.events[j].cb \notin {"onUpdate", "onContent", "onToolCall"}

\* C14: whatever the interleaving of fragments of different indices, as long as
\* the fragments of each index keep their relative order, the accumulator
\* holds exactly the records the order of arrival produced
C14_InterleavingIsImmaterial ==
    ApplyFragments(<< >>, reordered) = currentToolCallsAccumulator

\* fragments of three indices have arrived, two calls in pieces, and the other
\* order differs from the order of arrival
C14_InterleavedDifferently ==
    /\ Len(arrived) = MaxFragments
    /\ reordered # arrived
    /\ DOMAIN currentToolCallsAccumulator = {0, 1, 2}
    /\ currentToolCallsAccumulator[1].id = "call_e"

\* C15: on finish_reason "tool_calls" the batch handed to onToolCall consists
\* of exactly the accumulated records whose id, name and arguments are all
\* non-empty, in ascending order of their index
CompleteIndexes(acc) ==
    {i \in DOMAIN acc : acc[i].id # "" /\ acc[i].name # << >> /\ acc[i].arguments # << >>}

C15_BatchIsTheCompleteRecords ==
    accPc = "finished" =>
        LET complete == CompleteIndexes(currentToolCallsAccumulator)
        IN  /\ Len(handed) = Cardinality(complete)
            /\ \A i \in complete :
                  handed[Cardinality({j \in complete : j < i}) + 1]
                      = currentToolCallsAccumulator[i]

\* two complete records were handed over and a record without an id was left out
C15_IncompleteRecordLeftOut ==
    /\ accPc = "finished"
    /\ Len(handed) = 2
    /\ 2 \in DOMAIN currentToolCallsAccumulator
    /\ currentToolCallsAccumulator[2].id = ""
\* the ids of a sequence of tool calls, and the tool_call_ids of entries
CallIds(calls) == [k \in DOMAIN calls |-> calls[k].id]
AnsweredIds(entries) == [k \in DOMAIN entries |-> entries[k].tool_call_id]

\* the calls among the first n of a batch that a handler is run for
HandledCalls(batch, n) ==
    SelectSeq(SubSeq(batch, 1, n), LAMBDA tc : IsLocalTool(tc.name))

\* the last n elements of a sequence
LastOf(s, n) == SubSeq(s, Len(s) - n + 1, Len(s))

\* C16: the calls of a batch are executed one at a time in batch order (a
\* handler is started only when every earlier call has its result), and the
\* `tool' entries appended for the batch answer its calls in call order: the
\* i-th entry carries the id of the i-th call.
C16_ToolEntriesFollowCallOrder ==
    \A t \in Turns :
        LET run == tool[t]
            reached == IF run.status = "await" THEN run.pos ELSE run.pos - 1
            entries == EntriesOf(t, "tool")
        IN  /\ run.status = "await" => Len(run.results) = run.pos - 1
            /\ run.status \in {"await", "throw", "done"} =>
                  \* the handlers started last are those of this batch (an earlier
                  \* delivery of the turn has started its own before)
                  LET handled == HandledCalls(run.batch, reached)
                  IN  /\ Len(run.started) >= Len(handled)
                      /\ CallIds(LastOf(run.started, Len(handled))) = CallIds(handled)
            /\ Len(run.results) <= Len(run.batch)
            /\ AnsweredIds(run.results) = CallIds(SubSeq(run.batch, 1, Len(run.results)))
            /\ Len(entries) <= Len(run.batch)
            /\ AnsweredIds(entries) = CallIds(SubSeq(run.batch, 1, Len(entries)))
            /\ run.status = "done" => Len(entries) = Len(run.batch)

\* a batch of two calls has been executed and answered
C16_TwoCallsAnswered ==
    \E t \in Turns :
        /\ tool[t].status = "done"
        /\ Len(tool[t].batch) = 2
        /\ Len(tool[t].started) = 2
        /\ Len(EntriesOf(t, "tool")) = 2
\* C17: a call whose function name is that of a built-in tool gets the
\* built-in handler's result, whether or not the host has a command of the
\* same id; the host command runs only for a name no built-in tool has.
C17_BuiltinToolsTakePrecedence ==
    (toolCall.pc = "returned" /\ IsLocalTool(toolCall.name)) =>
        toolResult = BuiltinHandler(toolCall.name, toolCall.args, toolCall.host.vault)
\* C18: executing a tool call never ends in an exception, whatever its
\* function name and its arguments text: the run of a batch never stops on a
\* thrown exception, and every call a handler was started for, failed host
\* primitive or not, is answered by a `tool' entry once the batch has settled.
C18_NoExceptionEscapesToolExecution ==
    \A t \in Turns :
        /\ tool[t].status # "throw"
        /\ BatchSettled(t) =>
              \A k \in DOMAIN tool[t].started :
                  ToolEntriesFor(t, tool[t].started[k].id) # << >>
\* invocation a has ended in an error: the adapter called onError, or the try
\* block around generateResponse threw
EndedInError(a) == a.pc = "failed" \/ SelectEvents(a.events, {"onError"}) # << >>

\* C19: when an invocation of a turn ends in a transport error or in a failure
\* of the generation itself, nothing is appended to chatHistory for it: the
\* turn has no `assistant' entry, neither a reply nor an error text.
C19_ErrorAppendsNothing ==
    \A t \in Turns :
        (\E k \in Kinds : EndedInError(inv[<<t, k>>])) => EntriesOf(t, "assistant") = << >>
\* s is an initial part of t
IsPrefix(s, t) == Len(s) <= Len(t) /\ SubSeq(t, 1, Len(s)) = s

\* C20: chatHistory is append-only: every step of the view, the orchestrator,
\* an adapter or a tool leaves the entries already there unchanged and in
\* place, so that chatHistory before the step is a prefix of chatHistory after.
C20_ChatHistoryIsAppendOnly == [][IsPrefix(chatHistory, chatHistory')]_vars

\* chatHistory has grown by a second user entry after the first turn appended
\* its `tool' entries and the reply of its follow-up
C20_GrownByEveryKindOfAppend ==
    /\ EntriesOf(1, "tool") # << >>
    /\ EntriesOf(1, "assistant") # << >>
    /\ EntriesOf(2, "user") # << >>
\* C21: while a turn is open (from its user entry until the last of its
\* invocations, follow-ups included, has ended) no entry of another turn is
\* appended to chatHistory: the newest entry belongs to the open turn.
C21_TurnsDoNotInterleave ==
    \A t \in Turns :
        TurnActive(t) => chatHistory[Len(chatHistory)].turn = t
\* C22: stopping is idempotent: a stop made while the view is not generating
\* (right after another stop, or after the turn has finished) aborts no
\* controller and leaves chatHistory, the generating flag (false) and the
\* controller slot (null) as they were.
C22_StopWhenIdleIsNoOp ==
    [][(onDestroy /\ ~isGenerating) =>
          /\ currentAbortController = NoController
          /\ UNCHANGED <<chatHistory, isGenerating, currentAbortController, aborted>>]_vars

\* the view is idle after a stop whose turn has ended, and after a turn that
\* finished by itself: a state in which a further stop has been made
C22_StoppedTwice ==
    /\ ~isGenerating
    /\ currentAbortController = NoController
    /\ 1 \in aborted /\ ~TurnActive(1)
    /\ nTurns = 2 /\ 2 \notin aborted /\ ~TurnActive(2)
    /\ inv[<<2, "top">>].pc = "returned"
\* C23: the Anthropic adapter reports onFinish for a stream that was not
\* cancelled only when a message_stop event has been received, never because
\* the stream ended without one.
C23_MessageStopIsTheOnlyCompletion ==
    adProvider = "anthropic" =>
        \A k \in DOMAIN ad.events :
            (ad.events[k].cb = "onFinish" /\ ad.events[k].reason # "aborted")
                => ad.lastFrame = "message_stop"
\* the reader after the first n bytes of the response have come in one chunk
InOneChunk(n) ==
    Feed(rdProvider, [NoReader EXCEPT !.inv.pc = "read"], SubSeq(response, 1, n))

\* C24: however the bytes of a response are cut into read chunks, an adapter
\* makes the callbacks it makes when the same bytes come in a single chunk,
\* and keeps the same unfinished frame in its buffer.
C24_ChunkBoundariesAreImmaterial ==
    /\ rd.inv.pc = "read" =>
          /\ rd.inv.events = InOneChunk(nRead).inv.events
          /\ rd.buffer = InOneChunk(nRead).buffer
    /\ (rd.inv.pc = "returned" /\ ~rd.inv.eof) =>
          rd.inv.events = InOneChunk(nRead).inv.events
    /\ (rd.inv.pc = "returned" /\ rd.inv.eof) =>
          LET whole == InOneChunk(Len(response))
          IN  rd.inv.events
                  = EndOfStream(rdProvider, whole.inv, OllamaLeftover(whole.buffer)).events

\* a content delta has been forwarded, and the chunk read last ended in the
\* middle of the next frame, between the two bytes of a character
C24_CutInsideACharacter ==
    /\ rdProvider = "openai"
    /\ rd.inv.pc = "read"
    /\ rd.inv.nContent >= 1
    /\ rd.buffer # << >>
    /\ rd.pending = <<"C3">>
\* the invocation of adapter p has met a fatal error: a setting it needs is
\* missing (the endpoint or the model, for Anthropic the API key), the request
\* or a read failed for another reason than an abort, or the response was an
\* error or broke the protocol
MetFatalError(p, a) ==
    \/ a.config \in {"noEndpoint", "noModel"}
    \/ a.config = "noApiKey" /\ p = "anthropic"
    \/ a.raised \notin {"", "AbortError"}
    \/ MetStreamError(a)

\* C25: an invocation that was not cancelled and has met a fatal error
\* (configuration, transport or protocol) has reported it to the callbacks' onError, which shows one
\* message, exactly once: not zero times and not twice.
C25_FatalErrorReportedOnce ==
    (ad.pc = "returned" /\ ad.raised # "AbortError" /\ MetFatalError(adProvider, ad)) =>
        Len(SelectEvents(ad.events, {"onError"})) = 1
\* invocation a has ended with an onError
EndedWithOnError(a) == a.pc = "returned" /\ SelectEvents(a.events, {"onError"}) # << >>

\* C26: no error is retried: when an invocation of a turn has ended with an
\* onError, no further invocation is made for that turn -- an error of the
\* first invocation leaves the follow-up unstarted, and an error of the
\* follow-up comes after the first invocation has returned.  Only a new
\* submission, which is a new turn, calls generateResponse again.
C26_NoAutomaticRetry ==
    \A t \in Turns :
        /\ EndedWithOnError(inv[<<t, "top">>]) => inv[<<t, "followup">>].pc = "none"
        /\ EndedWithOnError(inv[<<t, "followup">>]) =>
              /\ inv[<<t, "top">>].pc = "returned"
              /\ SelectEvents(inv[<<t, "top">>].events, {"onError"}) = << >>

\* the first turn ended with an onError, and the user has submitted again
C26_ResubmittedAfterError ==
    /\ EndedWithOnError(inv[<<1, "top">>])
    /\ nTurns = 2
    /\ inv[<<2, "top">>].pc \notin {"none", "startStream"}
\* the settings pass the adapter's own check before the request
\* (OpenAIProvider.ts 71-84 and 332-339, OllamaProvider.ts 45-48)
ChecksPass(p, cfg) ==
    IF p = "anthropic" THEN cfg # "noApiKey" ELSE cfg \notin {"noEndpoint", "noModel"}

ToolNames(tools) == { tools[k].name : k \in DOMAIN tools }

C28_RegistryKeepsOneNewestDefinitionPerName ==
    nRegistrations >= 1 =>
        /\ \A j, k \in DOMAIN localTools :
              localTools[j].name = localTools[k].name => j = k
        /\ \A c \in DOMAIN lastListing :
              \E k \in DOMAIN localTools : localTools[k] = CommandTool(lastListing[c])
        /\ BuiltinToolNames \subseteq ToolNames(localTools)

\* a second registration has redefined a command that shares a built-in's name
C28_ReRegisteredUnderABuiltinName ==
    /\ nRegistrations >= 2
    /\ listed = {}
    /\ \E c \in DOMAIN lastListing :
          lastListing[c] = Command("obsidian_readFile", "Reload app without saving")
    /\ \E k \in DOMAIN localTools : localTools[k].name = "app:reload"


\* turn t asked for tools and is over without its controller having been aborted
RequestedToolsAndIdle(t) ==
    /\ tool[t].batch # << >>
    /\ inv[<<t, "top">>].pc \notin {"none", "startStream"}
    /\ ~TurnActive(t)
    /\ tool[t].status # "await"
    /\ t \notin aborted

\* the `tool' entries of turn t after position j that answer the call id
AnswersAfter(t, j, id) ==
    { k \in (j + 1)..Len(chatHistory) :
          /\ chatHistory[k].role = "tool"
          /\ chatHistory[k].turn = t
          /\ chatHistory[k].tool_call_id = id }

\* C29: when a turn that requested tools is idle again without cancellation,
\* every tool call it requested is listed in the tool_calls of an `assistant'
\* entry of the turn and is followed later in chatHistory by exactly one
\* `tool' entry with its id.
C29_ListedCallsAnsweredExactlyOnce ==
    \A t \in Turns :
        RequestedToolsAndIdle(t) =>
            \A c \in DOMAIN tool[t].batch :
                \E j \in DOMAIN chatHistory :
                    /\ chatHistory[j].role = "assistant"
                    /\ chatHistory[j].turn = t
                    /\ \E m \in DOMAIN chatHistory[j].tool_calls :
                           chatHistory[j].tool_calls[m].id = tool[t].batch[c].id
                    /\ Cardinality(AnswersAfter(t, j, tool[t].batch[c].id)) = 1


\* the name parts, and the arguments parts, of the fragments of index i,
\* joined in the order of the sequence
RECURSIVE NameParts(_, _)
NameParts(frags, i) ==
    IF frags = << >> THEN << >>
    ELSE (IF Head(frags).index = i THEN Head(frags).name ELSE << >>)
         \o NameParts(Tail(frags), i)

RECURSIVE ArgumentsParts(_, _)
ArgumentsParts(frags, i) ==
    IF frags = << >> THEN << >>
    ELSE (IF Head(frags).index = i THEN Head(frags).arguments ELSE << >>)
         \o ArgumentsParts(Tail(frags), i)

\* the fragments of the sequence that carry an id for index i
IdsFor(frags, i) ==
    { k \in DOMAIN frags : frags[k].index = i /\ frags[k].id # "" }

\* C30: the accumulator has a record for exactly the indexes that have
\* arrived; a record starts with empty id, name and arguments, so whichever
\* of the id, name and arguments pieces come first, its name and its
\* arguments are the name parts and the arguments parts of its fragments
\* joined in arrival order, and every emitted record is such a record.
C30_RecordIsTheConcatenationOfItsParts ==
    /\ DOMAIN currentToolCallsAccumulator = { arrived[k].index : k \in DOMAIN arrived }
    /\ \A i \in DOMAIN currentToolCallsAccumulator :
          /\ currentToolCallsAccumulator[i].name = NameParts(arrived, i)
          /\ currentToolCallsAccumulator[i].arguments = ArgumentsParts(arrived, i)
          /\ IdsFor(arrived, i) = {} => currentToolCallsAccumulator[i].id = ""
    /\ \A k \in DOMAIN handed :
          \E i \in DOMAIN currentToolCallsAccumulator :
              /\ handed[k].name = NameParts(arrived, i)
              /\ handed[k].arguments = ArgumentsParts(arrived, i)

\* an arguments piece came first, before the id and the name pieces: one
\* record is emitted, with the joined name and the joined arguments
C30_ReadFileJoinedFromFourPieces ==
    /\ accPc = "finished"
    /\ Len(arrived) = 4
    /\ arrived[1].arguments # << >>
    /\ arrived[1].id = ""
    /\ handed = << [id |-> "call_a",
                    name |-> <<"obsidian_", "readFile">>,
                    arguments |-> ArgsTruncated \o <<"\"a.md\"}">>] >>


\* every invocation and every tool batch of turn t has ended
TurnOver(t) ==
    /\ inv[<<t, "top">>].pc \in {"returned", "failed"}
    /\ ~TurnActive(t)
    /\ tool[t].status # "await"

\* C31: every turn ends with onGenerationFinished called, whatever the stream
\* did: once nothing of a turn is left to run, the view is no longer
\* generating for that turn.
C31_EndedTurnLeavesTheViewIdle ==
    \A t \in Turns :
        TurnOver(t) => ~(isGenerating /\ currentAbortController = t)


\* C32: while an invocation or the tool batch of a turn is active and the
\* turn has not been cancelled, follow-ups included, the view is generating
\* and holds that turn's AbortController.
C32_ActiveTurnKeepsTheStopButton ==
    \A t \in Turns :
        ((TurnActive(t) \/ tool[t].status = "await") /\ t \notin aborted)
            => (isGenerating /\ currentAbortController = t)


\* a terminal callback of invocation i is made in this step
TerminalArrives(i) ==
    /\ Len(inv'[i].events) > Len(inv[i].events)
    /\ HasTerminal(SubSeq(inv'[i].events, Len(inv[i].events) + 1, Len(inv'[i].events)))

\* C33: a terminal callback of an earlier turn that the user has stopped,
\* arriving while the view is generating for a newer turn, leaves the newer
\* turn's generating flag and AbortController as they are.
C33_StaleTerminalLeavesNewerTurnAlone ==
    [][\A u \in Turns :
          ( /\ isGenerating
            /\ currentAbortController = u
            /\ \E t \in 1..(u - 1), k \in Kinds :
                   t \in aborted /\ TerminalArrives(<<t, k>>) )
          => (isGenerating' /\ currentAbortController' = u)]_vars


\* C34: in each adapter and for every outcome of an invocation at most one
\* terminal callback (onFinish or onError) is made, and no onUpdate,
\* onContent or onToolCall follows it.
C34_AtMostOneTerminalAndNothingAfter ==
    /\ Len(Terminals(ad.events)) <= 1
    /\ \A j, k \in DOMAIN ad.events :
          (j < k /\ IsTerminal(ad.events[j])) => IsTerminal(ad.events[k])


(***************************************************************************)
(* registerObsidianCommandsAsTools with its generation tasks                *)
(* (McpMarketplaceService.ts 380-627).  A run lists the host's commands,   *)
(* prunes the cache, and starts one generationTask per command that needs  *)
(* LLM details; each task runs up to its first await within the run's own  *)
(* step.  The first run is the one init() awaits (374-378) with the layout *)
(* ready; later runs are those of the debounced "changed" handler, which   *)
(* needs `initialized' (326-329) and so starts after the first run is      *)
(* over, but not after each other.                                         *)
(***************************************************************************)
\* the state the tasks share
Shared(cache, status, lock, tasks) ==
    [cache |-> cache, status |-> status, lock |-> lock, tasks |-> tasks]

\* the cache files loadCommandMcpCacheFromFile may find (part_003 461-477)
CacheFiles ==
    { [id \in CommandIds |-> NoCacheEntry],
      [id \in CommandIds |-> IF id = "app:reload"
                             THEN CacheEntry("Reload app", "generated")
                             ELSE NoCacheEntry] }

CommandIdsOf(commands) == { commands[k].id : k \in DOMAIN commands }

NameOf(commands, id) ==
    commands[CHOOSE k \in DOMAIN commands : commands[k].id = id].name

\* 396-404: entries of ids that are neither listed nor names in localTools
PruneCache(cache, commands, tools) ==
    [id \in CommandIds |->
        IF id \in CommandIdsOf(commands) \/ id \in ToolNames(tools)
        THEN cache[id] ELSE NoCacheEntry]

\* the condition of 425 and of 447-452, negated there
NeedsGeneration(entry, name) ==
    \/ entry = NoCacheEntry
    \/ entry.originalName # name
    \/ entry.description \in {"", "default"}

\* a lock anyone may take
CanAcquireAlways(lock) == TRUE

\* 438-441: while (this.isGeneratingDescription) await ...
CanAcquire(lock) == ~lock

\* a finally block that leaves the global flag as it is
finallyBlockKeepingLock(st, t) ==
    [st EXCEPT !.status = @ \ {t[2]},
               !.tasks[t] = Task("done", st.tasks[t].lockAcquired)]

\* 532-537: the end of the finally block of task t
finallyBlock(st, t) ==
    [st EXCEPT !.lock = IF st.tasks[t].lockAcquired THEN FALSE ELSE @,
               !.status = @ \ {t[2]},
               !.tasks[t] = Task("done", st.tasks[t].lockAcquired)]

\* 442-454: the lock is taken and the cache looked at again
AcquireAndRecheck(st, t, name) ==
    LET held == [st EXCEPT !.lock = TRUE, !.tasks[t] = Task("generating", TRUE)]
    IN  IF NeedsGeneration(st.cache[t[2]], name) THEN held ELSE finallyBlock(held, t)

\* 426-443: generationTask() up to its first await
generationTask(st, t, name) ==
    IF t[2] \in st.status
    THEN finallyBlock(st, t)
    ELSE LET marked == [st EXCEPT !.status = @ \cup {t[2]}]
         IN  IF CanAcquire(marked.lock)
             THEN AcquireAndRecheck(marked, t, name)
             ELSE [marked EXCEPT !.tasks[t] = Task("polling", FALSE)]

\* 541-557: the entry of a command no task is started for
FillWithoutLLM(st, c) ==
    LET entry == st.cache[c.id]
    IN  IF entry = NoCacheEntry \/ entry.originalName # c.name
        THEN [st EXCEPT !.cache[c.id] =
                 CacheEntry(c.name, IF entry.description # "" THEN entry.description
                                    ELSE "default")]
        ELSE st

\* 422-558: for (const command of obsidianCommands)
RECURSIVE ScanCommands(_, _, _, _)
ScanCommands(st, r, commands, llm) ==
    IF commands = << >> THEN st
    ELSE LET c == Head(commands)
             next == IF llm /\ NeedsGeneration(st.cache[c.id], c.name)
                     THEN generationTask(st, <<r, c.id>>, c.name)
                     ELSE FillWithoutLLM(st, c)
         IN  ScanCommands(next, r, Tail(commands), llm)

\* Promise.all(generationPromises) (570) has nothing left to wait for
AllSettled(tasks, r) ==
    \A id \in CommandIds : tasks[<<r, id>>].pc \in {"none", "done"}

\* the variables after a step that left the shared state st, tools and the
\* run r as given; a run whose tasks have all settled goes on to 579-616
StepTo(st, r, commands, tools) ==
    /\ commandMcpCache' = st.cache
    /\ commandGenerationStatus' = st.status
    /\ isGeneratingDescription' = st.lock
    /\ generationTasks' = st.tasks
    /\ IF AllSettled(st.tasks, r)
       THEN /\ runs' = [runs EXCEPT ![r] = Run("done", commands)]
            /\ localTools' = RewriteLocalTools(tools, commands)
       ELSE /\ runs' = [runs EXCEPT ![r] = Run("awaiting", commands)]
            /\ localTools' = tools

Now == Shared(commandMcpCache, commandGenerationStatus, isGeneratingDescription,
              generationTasks)

otherVars == <<sessionVars, adapterVars, accumulatorVars, executorVars, readerVars,
               initialized, listed, lastListing, nRegistrations, descriptionVars>>

\* loadCacheAndRegisterTools (374-378): the cache file, the built-ins, and the
\* first run up to its first await
loadCacheAndRegisterTools ==
    /\ runs[1].pc = "none"
    /\ \E file \in CacheFiles, obsidianCommands \in Listings, llm \in BOOLEAN :
          LET tools == registerLocalTools(localTools)
              pruned == [Now EXCEPT !.cache = PruneCache(file, obsidianCommands, tools)]
          IN  StepTo(ScanCommands(pruned, 1, obsidianCommands, llm), 1,
                     obsidianCommands, tools)
    /\ UNCHANGED otherVars

\* the debounced handler calls registerObsidianCommandsAsTools (326-329): the
\* run up to its first await
registrationRuns(r) ==
    /\ r > 1
    /\ runs[1].pc = "done"
    /\ runs[r].pc = "none"
    /\ \A q \in 2..(r - 1) : runs[q].pc # "none"
    /\ \E obsidianCommands \in Listings, llm \in BOOLEAN :
          LET pruned == [Now EXCEPT
                            !.cache = PruneCache(@, obsidianCommands, localTools)]
          IN  StepTo(ScanCommands(pruned, r, obsidianCommands, llm), r,
                     obsidianCommands, localTools)
    /\ UNCHANGED otherVars

\* the 200 ms timer of a waiting task fires and finds the flag clear (438-454)
TaskAcquires(t) ==
    /\ generationTasks[t].pc = "polling"
    /\ CanAcquire(isGeneratingDescription)
    /\ StepTo(AcquireAndRecheck(Now, t, NameOf(runs[t[1]].commands, t[2])),
              t[1], runs[t[1]].commands, localTools)
    /\ UNCHANGED otherVars

DetailsOutcomes == {"details", "null", "throws"}

\* 458-521: what generateCommandMcpDetails gives is written to the cache
DetailsWritten(st, t, name, outcome) ==
    LET entry == st.cache[t[2]]
    IN  IF outcome = "details" THEN [st EXCEPT !.cache[t[2]] = CacheEntry(name, "generated")]
        ELSE IF outcome = "null" THEN [st EXCEPT !.cache[t[2]] = CacheEntry(name, "default")]
        ELSE IF entry = NoCacheEntry \/ entry.originalName # name \/ entry.description = ""
        THEN [st EXCEPT !.cache[t[2]] = CacheEntry(name, "default")]
        ELSE st

\* the LLM details call of task t settles (458); a changed cache is saved
\* before the lock is released (523-531)
DetailsReturn(t) ==
    /\ generationTasks[t].pc = "generating"
    /\ \E outcome \in DetailsOutcomes :
          LET written == DetailsWritten(Now, t, NameOf(runs[t[1]].commands, t[2]), outcome)
              after == IF written.cache # commandMcpCache \/ outcome # "throws"
                       THEN [written EXCEPT !.tasks[t] = Task("saving", TRUE)]
                       ELSE finallyBlock(written, t)
          IN  StepTo(after, t[1], runs[t[1]].commands, localTools)
    /\ UNCHANGED otherVars

\* saveCommandMcpCacheToFile of task t settles (526-530), then 532-537
SaveReturns(t) ==
    /\ generationTasks[t].pc = "saving"
    /\ StepTo(finallyBlock(Now, t), t[1], runs[t[1]].commands, localTools)
    /\ UNCHANGED otherVars

TaskProgress ==
    \E t \in Runs \X CommandIds : TaskAcquires(t) \/ DetailsReturn(t) \/ SaveReturns(t)

GenerationNext ==
    \/ loadCacheAndRegisterTools
    \/ \E r \in Runs : registrationRuns(r)
    \/ \E t \in Runs \X CommandIds : TaskAcquires(t)
    \/ \E t \in Runs \X CommandIds : DetailsReturn(t)
    \/ \E t \in Runs \X CommandIds : SaveReturns(t)

GenerationSpec == Init /\ [][GenerationNext]_vars

\* timers fire, and the LLM call and the cache save of a task settle
GenerationFairSpec == GenerationSpec /\ WF_vars(TaskProgress)


\* the runs whose task for command id has set the command's flag and has not
\* finished
TasksGenerating(id) ==
    { r \in Runs : generationTasks[<<r, id>>].pc \in {"polling", "generating", "saving"} }

\* C35: a command's generation-in-progress flag is cleared only by the task
\* that set it: while a task is between setting the flag and finishing, the
\* flag stays set whatever other tasks for the command do, so at most one
\* task per command id is in that stretch.
C35_FlagClearedOnlyByItsSetter ==
    \A id \in CommandIds :
        /\ TasksGenerating(id) # {} => id \in commandGenerationStatus
        /\ Cardinality(TasksGenerating(id)) <= 1


\* the tasks between taking the global flag and releasing it
LockHolders ==
    { t \in Runs \X CommandIds :
          generationTasks[t].lockAcquired /\ generationTasks[t].pc \in {"generating", "saving"} }

\* C36: isGeneratingDescription is a mutual-exclusion lock: at most one
\* generation task, of whatever run, is between acquiring and releasing it,
\* so at most one generateCommandMcpDetails call is in flight.
C36_GlobalFlagIsAMutex ==
    /\ Cardinality(LockHolders) <= 1
    /\ Cardinality({ t \in Runs \X CommandIds : generationTasks[t].pc = "generating" }) <= 1

\* tasks of two overlapping runs: one has released the lock, one of the other
\* run holds it and its LLM call is in flight, and one is still waiting for it
C36_LockPassedBetweenRuns ==
    \E a, b, c \in Runs \X CommandIds :
        /\ a[1] # b[1]
        /\ generationTasks[a] = Task("done", TRUE)
        /\ generationTasks[b] = Task("generating", TRUE)
        /\ generationTasks[c].pc = "polling"
        /\ runs[a[1]].pc = "awaiting"
        /\ runs[b[1]].pc = "awaiting"


\* no run is waiting for its tasks and no task is waiting or at work
GenerationQuiet ==
    /\ \A r \in Runs : runs[r].pc # "awaiting"
    /\ \A t \in Runs \X CommandIds : generationTasks[t].pc \in {"none", "done"}

\* C37: a task that acquired isGeneratingDescription releases it on every
\* exit path and a task that did not acquire it never releases it, so the
\* flag is set exactly while some task holds it; and, the LLM calls and the
\* cache saves settling, the polling tasks all acquire the lock in the end
\* and every run of registerObsidianCommandsAsTools comes to its end.
C37_LockReleasedAndRunsTerminate ==
    /\ [](isGeneratingDescription <=> LockHolders # {})
    /\ <>[]GenerationQuiet

\* the runs are over: tasks that held the lock and a task that never did are
\* done, and the lock is free
C37_AllRunsOverLockFree ==
    /\ \A r \in Runs : runs[r].pc = "done"
    /\ ~isGeneratingDescription
    /\ \E a, b, c \in Runs \X CommandIds :
          /\ a # b
          /\ generationTasks[a] = Task("done", TRUE)
          /\ generationTasks[b] = Task("done", TRUE)
          /\ generationTasks[c] = Task("done", FALSE)


\* the cache agrees with the command list `commands'
CacheConsistentWith(cache, commands) ==
    /\ \A k \in DOMAIN commands : cache[commands[k].id].originalName = commands[k].name
    /\ \A id \in CommandIds :
          cache[id] # NoCacheEntry => (id \in CommandIdsOf(commands) \/ id \in BuiltinToolNames)

\* C38: when a run of registerObsidianCommandsAsTools completes, every
\* command it listed has a cache entry whose originalName is the command's
\* name, and no entry is left for an id that is neither a listed command nor
\* a built-in tool name.
C38_CacheConsistentAtCompletion ==
    [][\A r \in Runs :
          (runs[r].pc # "done" /\ runs'[r].pc = "done")
              => CacheConsistentWith(commandMcpCache', runs'[r].commands)]_vars


(***************************************************************************)
(* generateCommandDescription (part_003 497-617): the first-response timer *)
(* against the stream of one generateResponse call.  A step is one task of *)
(* the event loop with the promise reactions it sets off.                  *)
(***************************************************************************)
MaxChunks == 3

\* the chunks onUpdate is called with: text, a tag the stripping leaves in
\* place, a filler opening, and the empty chunk of a final update
Chunks == { "Saves the current file.", "<think>", "Here's a description:", "" }

\* the chunks that are not empty
NonEmptyChunks(chunks) == SelectSeq(chunks, LAMBDA c : c # "")

\* 587-601: null unless text is left that holds no tag and opens with no filler
DescriptionOf(chunks) ==
    IF NonEmptyChunks(chunks) = << >> THEN "null"
    ELSE IF \E k \in DOMAIN chunks : chunks[k] = "<think>" THEN "null"
    ELSE IF Head(NonEmptyChunks(chunks)) = "Here's a description:" THEN "null"
    ELSE "text"

\* an onUpdate that leaves the timer running
TimerAfterChunkStillArmed(timer) == timer

\* 528-531: onUpdate clears the timer if it is active
TimerAfterChunk(timer) == IF timer = "armed" THEN "cleared" ELSE timer

\* 572-577: the finally of generationPromise
TimerAfterSettling(timer) == IF timer = "armed" THEN "cleared" ELSE timer

registryAndGeneration == <<sessionVars, adapterVars, accumulatorVars, executorVars,
                           readerVars, registryVars, generationVars>>

\* the call up to `await Promise.race' (497-585); with no provider it returns
\* at 500, and a provider that reports a configuration error has settled
\* before the race is awaited
generateCommandDescription ==
    /\ descPc = "idle"
    /\ \E provider \in {"none", "configError", "ok"} :
          IF provider = "none"
          THEN /\ descPc' = "returned"
               /\ descResult' = "null"
               /\ UNCHANGED <<generationPromise, descriptionGenerationTimeoutId>>
          ELSE IF provider = "configError"
          THEN /\ descPc' = "returned"
               /\ descResult' = DescriptionOf(<< >>)
               /\ generationPromise' = "settled"
               /\ descriptionGenerationTimeoutId' = TimerAfterSettling("armed")
          ELSE /\ descPc' = "racing"
               /\ generationPromise' = "pending"
               /\ descriptionGenerationTimeoutId' = "armed"
               /\ UNCHANGED descResult
    /\ UNCHANGED <<descAborted, fullResponse, nChunks, registryAndGeneration>>

\* streamCallbacks.onUpdate (527-533)
onUpdate ==
    /\ generationPromise = "pending"
    /\ ~descAborted
    /\ nChunks < MaxChunks
    /\ \E chunk \in Chunks : fullResponse' = Append(fullResponse, chunk)
    /\ nChunks' = nChunks + 1
    /\ descriptionGenerationTimeoutId' = TimerAfterChunk(descriptionGenerationTimeoutId)
    /\ UNCHANGED <<descPc, generationPromise, descAborted, descResult,
                   registryAndGeneration>>

\* the 15 s timer fires (557-566): abort, reject, and the catch of 605-608
TimerFires ==
    /\ descriptionGenerationTimeoutId = "armed"
    /\ descriptionGenerationTimeoutId' = "fired"
    /\ descAborted' = TRUE
    /\ descPc' = "returned"
    /\ descResult' = "null"
    /\ UNCHANGED <<generationPromise, fullResponse, nChunks, registryAndGeneration>>

\* generateResponse ends: after onFinish, after onError (540-543), or with an
\* exception; the finally (572-577), and the race if it is still open (585-608)
GenerationSettles ==
    /\ generationPromise = "pending"
    /\ generationPromise' = "settled"
    /\ descriptionGenerationTimeoutId' = TimerAfterSettling(descriptionGenerationTimeoutId)
    /\ \E outcome \in {"onFinish", "onError", "rejects"} :
          /\ fullResponse' = IF outcome = "onError" THEN << >> ELSE fullResponse
          /\ IF descPc = "racing"
             THEN /\ descPc' = "returned"
                  /\ descResult' = IF outcome = "rejects" THEN "null"
                                   ELSE DescriptionOf(fullResponse')
             ELSE UNCHANGED <<descPc, descResult>>
    /\ UNCHANGED <<descAborted, nChunks, registryAndGeneration>>

DescriptionNext ==
    \/ generateCommandDescription
    \/ onUpdate
    \/ TimerFires
    \/ GenerationSettles

DescriptionSpec == Init /\ [][DescriptionNext]_vars

\* C39: the first-response timer and the stream race safely: when the timer
\* fires no chunk has arrived, the request is aborted and the result is null;
\* once a chunk has arrived the timer is cleared and the request is never
\* aborted by it; and whenever the generation promise has settled the timer
\* is no longer running.
C39_TimerAndStreamRaceSafely ==
    /\ descriptionGenerationTimeoutId = "fired"
          => (nChunks = 0 /\ descAborted /\ descResult = "null")
    /\ nChunks >= 1 => (descriptionGenerationTimeoutId = "cleared" /\ ~descAborted)
    /\ generationPromise = "settled" => descriptionGenerationTimeoutId # "armed"
    /\ descAborted => descriptionGenerationTimeoutId = "fired"

\* a chunk came before the timer, more followed, and the call returned text
C39_ChunkBeatTheTimer ==
    /\ nChunks >= 2
    /\ generationPromise = "settled"
    /\ descriptionGenerationTimeoutId = "cleared"
    /\ descResult = "text"

=============================================================================
